---------------------------- MODULE Spec2Model ----------------------------
(***************************************************************************)
(* The Dart JIT plugin for LLDB (DartJITPlugin.cpp, second translation     *)
(* unit of the file, lines 500-1042): the JIT registry, the pending        *)
(* pattern list, the armed-address set, the registration callback and the  *)
(* operator commands list / break / add / watch / setup.                   *)
(*                                                                         *)
(* A std::string is a sequence of one-character strings.                   *)
(***************************************************************************)
EXTENDS Integers, Sequences, FiniteSets, TLC

(***************************************************************************)
(* Bounds of the model.                                                    *)
(***************************************************************************)
MaxAddr == 1
MaxSize == 1
MaxPatterns == 2
MaxRegBps == 2
MaxSetups == 1
MaxAutoBps == 2
UMax == 31

(***************************************************************************)
(* std::string helpers.                                                    *)
(***************************************************************************)
UpperChars == <<"A","B","C","D","E","F","G","H","I","J","K","L","M",
                "N","O","P","Q","R","S","T","U","V","W","X","Y","Z">>
LowerChars == <<"a","b","c","d","e","f","g","h","i","j","k","l","m",
                "n","o","p","q","r","s","t","u","v","w","x","y","z">>

\* ::tolower on one character (C locale).
tolower(c) ==
  IF \E i \in 1..26 : UpperChars[i] = c
  THEN LowerChars[CHOOSE i \in 1..26 : UpperChars[i] = c]
  ELSE c

\* std::transform(s.begin(), s.end(), s.begin(), ::tolower)
ToLowerStr(s) == [i \in 1..Len(s) |-> tolower(s[i])]

npos == 0 - 1

\* s.find(p): the 0-based index of the first occurrence of p in s, or npos.
\* The empty string is found at index 0.
StrFind(s, p) ==
  IF \E i \in 0..(Len(s) - Len(p)) : SubSeq(s, i + 1, i + Len(p)) = p
  THEN CHOOSE i \in 0..(Len(s) - Len(p)) :
         /\ SubSeq(s, i + 1, i + Len(p)) = p
         /\ \A j \in 0..(i - 1) : SubSeq(s, j + 1, j + Len(p)) # p
  ELSE npos

\* s.find(c) for one character.
FindChar(s, c) ==
  IF \E i \in 1..Len(s) : s[i] = c
  THEN (CHOOSE i \in 1..Len(s) : s[i] = c /\ \A j \in 1..(i - 1) : s[j] # c) - 1
  ELSE npos

\* s.find_first_not_of(" \t")
FindFirstNotOf(s, cs) ==
  IF \E i \in 1..Len(s) : s[i] \notin cs
  THEN (CHOOSE i \in 1..Len(s) :
          s[i] \notin cs /\ \A j \in 1..(i - 1) : s[j] \in cs) - 1
  ELSE npos

\* s.substr(pos)
Substr(s, pos) == SubSeq(s, pos + 1, Len(s))

\* s.substr(pos, n)
SubstrN(s, pos, n) ==
  SubSeq(s, pos + 1, IF pos + n > Len(s) THEN Len(s) ELSE pos + n)

(***************************************************************************)
(* strtoull(s, nullptr, 0): optional white space, optional sign, base      *)
(* chosen by the prefix (0x/0X: 16, 0: 8, else 10), the longest run of     *)
(* digits of that base; 0 when there is none; the value saturates at the   *)
(* largest unsigned value, and a minus sign negates modulo that value + 1. *)
(***************************************************************************)
SpaceChars == {" ", "\t", "\n", "\r"}
DigitChars == <<"0","1","2","3","4","5","6","7","8","9",
                "a","b","c","d","e","f">>

DigitVal(c) ==
  LET l == tolower(c)
  IN  IF \E i \in 1..16 : DigitChars[i] = l
      THEN (CHOOSE i \in 1..16 : DigitChars[i] = l) - 1
      ELSE 99

RECURSIVE SkipSpaces(_)
SkipSpaces(s) ==
  IF s # <<>> /\ Head(s) \in SpaceChars THEN SkipSpaces(Tail(s)) ELSE s

\* <<value, number of digits consumed>> of the digits of `base` leading s,
\* starting from the accumulated value acc; saturating at UMax.
RECURSIVE Digits(_, _, _, _)
Digits(s, base, acc, n) ==
  IF s # <<>> /\ DigitVal(Head(s)) < base
  THEN LET v == acc * base + DigitVal(Head(s))
       IN  Digits(Tail(s), base, IF v > UMax THEN UMax + 1 ELSE v, n + 1)
  ELSE <<acc, n>>

strtoull(str) ==
  LET s0   == SkipSpaces(str)
      neg  == s0 # <<>> /\ Head(s0) = "-"
      s1   == IF s0 # <<>> /\ Head(s0) \in {"+", "-"} THEN Tail(s0) ELSE s0
      hex  == /\ Len(s1) >= 3
              /\ s1[1] = "0"
              /\ s1[2] \in {"x", "X"}
              /\ DigitVal(s1[3]) < 16
      base == IF hex THEN 16
              ELSE IF s1 # <<>> /\ Head(s1) = "0" THEN 8 ELSE 10
      s2   == IF hex THEN Tail(Tail(s1)) ELSE s1
      d    == Digits(s2, base, 0, 0)
      v    == d[1]
  IN  IF d[2] = 0 THEN 0
      ELSE IF v > UMax THEN UMax
      ELSE IF neg THEN (UMax + 1 - v) % (UMax + 1)
      ELSE v

(***************************************************************************)
(* std::getline over the blob: the lines between newline characters (a     *)
(* trailing newline ends the last line and starts no further one).         *)
(***************************************************************************)
RECURSIVE GetLines(_)
GetLines(s) ==
  IF s = <<>> THEN <<>>
  ELSE LET nl == FindChar(s, "\n")
       IN  IF nl = npos THEN <<s>>
           ELSE <<SubstrN(s, 0, nl)>> \o GetLines(Substr(s, nl + 1))

Unknown == <<"u","n","k","n","o","w","n">>
DocMarker == <<"-","-","-">>
KeyName == <<"n","a","m","e">>
KeyStart == <<"s","t","a","r","t">>
KeySize == <<"s","i","z","e">>
KeyFile == <<"f","i","l","e">>

\* The value of a line after its first colon, leading blanks removed when
\* something other than blanks follows them.
LineValue(line, colon_pos) ==
  LET value == Substr(line, colon_pos + 1)
      start == FindFirstNotOf(value, {" ", "\t"})
  IN  IF start # npos THEN Substr(value, start) ELSE value

\* The loop body with a document marker starting the record afresh.
ParseLine_MarkerResets(rec, line) ==
  IF line = <<>> THEN rec
  ELSE IF line = DocMarker
  THEN [addr |-> 0, size |-> 0, name |-> Unknown, file |-> Unknown]
  ELSE LET colon_pos == FindChar(line, ":")
       IN  IF colon_pos = npos THEN rec
           ELSE LET key   == SubstrN(line, 0, colon_pos)
                    value == LineValue(line, colon_pos)
                IN  IF key = KeyName THEN [rec EXCEPT !.name = value]
                    ELSE IF key = KeyStart
                      THEN [rec EXCEPT !.addr = strtoull(value)]
                    ELSE IF key = KeySize
                      THEN [rec EXCEPT !.size = strtoull(value)]
                    ELSE IF key = KeyFile THEN [rec EXCEPT !.file = value]
                    ELSE rec

\* The loop body splitting a line at its last colon.
ParseLine_LastColon(rec, line) ==
  IF line = <<>> \/ line = DocMarker THEN rec
  ELSE IF FindChar(line, ":") = npos THEN rec
  ELSE LET colon_pos == (CHOOSE i \in 1..Len(line) :
                           /\ line[i] = ":"
                           /\ \A j \in (i + 1)..Len(line) : line[j] # ":") - 1
           key   == SubstrN(line, 0, colon_pos)
           value == LineValue(line, colon_pos)
       IN  IF key = KeyName THEN [rec EXCEPT !.name = value]
           ELSE IF key = KeyStart THEN [rec EXCEPT !.addr = strtoull(value)]
           ELSE IF key = KeySize THEN [rec EXCEPT !.size = strtoull(value)]
           ELSE IF key = KeyFile THEN [rec EXCEPT !.file = value]
           ELSE rec

\* One iteration of the while loop over the lines: rec is <<addr, size,
\* name, file>> so far.
ParseLine(rec, line) ==
  IF line = <<>> \/ line = DocMarker THEN rec
  ELSE LET colon_pos == FindChar(line, ":")
       IN  IF colon_pos = npos THEN rec
           ELSE LET key   == SubstrN(line, 0, colon_pos)
                    value == LineValue(line, colon_pos)
                IN  IF key = KeyName THEN [rec EXCEPT !.name = value]
                    ELSE IF key = KeyStart
                      THEN [rec EXCEPT !.addr = strtoull(value)]
                    ELSE IF key = KeySize
                      THEN [rec EXCEPT !.size = strtoull(value)]
                    ELSE IF key = KeyFile THEN [rec EXCEPT !.file = value]
                    ELSE rec

RECURSIVE ParseLines(_, _)
ParseLines(rec, lines) ==
  IF lines = <<>> THEN rec
  ELSE ParseLines(ParseLine(rec, Head(lines)), Tail(lines))

\* The boolean ParseYAMLDebugInfo returns.
ParseValid_Or(addr, size) == addr # 0 \/ size # 0
ParseValid(addr, size) == addr # 0 /\ size # 0

\* ParseYAMLDebugInfo: [ok, addr, size, name, file].
ParseYAMLDebugInfo(yaml) ==
  LET init == [addr |-> 0, size |-> 0, name |-> Unknown, file |-> Unknown]
      r    == ParseLines(init, GetLines(yaml))
  IN  [ok |-> ParseValid(r.addr, r.size),
       addr |-> r.addr, size |-> r.size, name |-> r.name, file |-> r.file]

(***************************************************************************)
(* MatchesPending over a given pattern vector.                             *)
(***************************************************************************)
\* Lines 542-548: one pattern against the name.
PatternHits_Anchored(fn, pat) ==
  SubstrN(ToLowerStr(fn), 0, Len(pat)) = ToLowerStr(pat)
PatternHits_CaseSensitive(fn, pat) == StrFind(fn, pat) # npos
PatternHits(fn, pat) == StrFind(ToLowerStr(fn), ToLowerStr(pat)) # npos

MatchesPending(fn, patterns) ==
  \E i \in 1..Len(patterns) : PatternHits(fn, patterns[i])


(***************************************************************************)
(* The state of the plugin and of the two execution contexts that touch    *)
(* it: the debugger's event-handling context running BreakpointCallback    *)
(* (cb) and the command context running one operator command (cmd).        *)
(* An unordered_map is a set of <<key, value>> pairs with unique keys.     *)
(***************************************************************************)
VARIABLES
  g_jit_mutex,         \* "free", or the context that holds the mutex
  g_jit_functions,     \* address -> name
  g_jit_files,         \* address -> source file
  g_jit_sizes,         \* address -> size
  g_pending_patterns,  \* vector of patterns
  g_active_bp_addrs,   \* set of addresses armed by the callback
  reg_bps,             \* the breakpoints setup created, as it configured them
  auto_bps,            \* address -> "breakpoint set --address" commands run
  committed,           \* address -> the record of its last completed upsert
  cb,                  \* the callback invocation in progress
  cmd,                 \* the command in progress
  probe                \* a pure function under test: its input and output

vars == <<g_jit_mutex, g_jit_functions, g_jit_files, g_jit_sizes,
          g_pending_patterns, g_active_bp_addrs, reg_bps, auto_bps,
          committed, cb, cmd, probe>>

registry == <<g_jit_functions, g_jit_files, g_jit_sizes>>

Keys(m) == {p[1] : p \in m}
Get(m, k) == (CHOOSE p \in m : p[1] = k)[2]
\* m[k] = v
Put(m, k, v) == {p \in m : p[1] # k} \cup {<<k, v>>}
\* m.count(k) > 0
Has(m, k) == k \in Keys(m)

(***************************************************************************)
(* The inputs of the model.                                                *)
(***************************************************************************)
Addrs == 1..MaxAddr
NameAB == <<"a", "B">>
NameB == <<"b">>
FileF == <<"f">>
Names == {NameAB, NameB}
Files == {FileF}
PatB == <<"b">>
PatAb == <<"A", "b">>

\* The text of a small number, as the runtime and the operator write it.
DecStr(n) == IF n < 10 THEN <<DigitChars[n + 1]>>
             ELSE <<DigitChars[(n \div 10) + 1], DigitChars[(n % 10) + 1]>>
HexStr(n) == <<"0", "x">> \o
             (IF n < 16 THEN <<DigitChars[n + 1]>>
              ELSE <<DigitChars[(n \div 16) + 1], DigitChars[(n % 16) + 1]>>)

\* A symfile blob as the runtime publishes it: a document marker and one
\* "key: value" line per field it supplies.  A field is <<>> (no line) or
\* <<text>>.
FieldLine(key, f) ==
  IF f = <<>> THEN <<>> ELSE key \o <<":", " ">> \o f[1] \o <<"\n">>
Render(fields) ==
  DocMarker \o <<"\n">> \o FieldLine(KeyName, fields.name)
            \o FieldLine(KeyStart, fields.start)
            \o FieldLine(KeySize, fields.size)
            \o FieldLine(KeyFile, fields.file)

Opt(S) == {<<>>} \cup {<<x>> : x \in S}
AllFields == [name : Opt(Names),
              start : Opt({HexStr(n) : n \in 0..MaxAddr}),
              size : Opt({DecStr(n) : n \in 0..MaxSize}),
              file : Opt(Files)]
NoFields == [name |-> <<>>, start |-> <<>>, size |-> <<>>, file |-> <<>>]

\* What the start and size lines of a blob say, read without the decoder.
FieldsStart(fields) ==
  IF \E n \in 0..MaxAddr : fields.start = <<HexStr(n)>>
  THEN CHOOSE n \in 0..MaxAddr : fields.start = <<HexStr(n)>>
  ELSE 0
FieldsSize(fields) ==
  IF \E n \in 0..MaxSize : fields.size = <<DecStr(n)>>
  THEN CHOOSE n \in 0..MaxSize : fields.size = <<DecStr(n)>>
  ELSE 0
FieldsDecodable(fields) == FieldsStart(fields) # 0 /\ FieldsSize(fields) # 0

\* The blobs of the registration events: every decodable one that names
\* its function, the decodable one that states only start and size, and
\* the undecodable ones of one name in which the start or the size is good.
EventFields ==
  {f \in AllFields :
     \/ f.name # <<>> /\ FieldsDecodable(f)
     \/ f.name = <<>> /\ f.file = <<>> /\ FieldsDecodable(f)
     \/ /\ f.name = <<NameAB>> /\ f.file = <<>>
        /\ FieldsStart(f) # 0 \/ FieldsSize(f) # 0}

\* A registration event, as the callback finds it in the debuggee:
\*   symbol  - __jit_debug_descriptor resolves
\*   fail_at - the memory read that fails (0: none; 1 version, 2 action,
\*             3 relevant_entry, 4 next, 5 prev, 6 symfile_addr,
\*             7 symfile_size, 8 the blob)
\*   action  - the descriptor's action field
\*   entry   - the descriptor's relevant_entry pointer (0: null)
\*   fields  - the blob the entry points at
JIT_REGISTER_FN == 1
Event(symbol, fail_at, action, entry, fields) ==
  [symbol |-> symbol, fail_at |-> fail_at, action |-> action,
   entry |-> entry, fields |-> fields]
Events ==
  {Event(FALSE, 0, 1, 1, NoFields)}
  \cup {Event(TRUE, k, 1, 1, NoFields) : k \in 1..8}
  \cup {Event(TRUE, 0, 1, 0, NoFields),
        Event(TRUE, 0, 0, 1, NoFields),
        Event(TRUE, 0, 2, 1, NoFields),
        Event(TRUE, 4, 2, 1, NoFields)}
  \cup {Event(TRUE, 0, 1, 1, f) : f \in EventFields}

\* No event: what the callback holds between two invocations.
NoEvent == Event(TRUE, 0, 0, 0, NoFields)

\* The decoder's result for every blob of the model.
Decoded == [f \in AllFields |-> ParseYAMLDebugInfo(Render(f))]

(***************************************************************************)
(* The two contexts.                                                       *)
(***************************************************************************)
CbIdle ==
  [pc |-> "idle", path |-> "", ret |-> FALSE, ev |-> NoFields,
   event |-> NoEvent, reads |-> 0,
   code_addr |-> 0, code_size |-> 0, func_name |-> <<>>,
   source_file |-> <<>>, already_registered |-> FALSE,
   pats |-> <<>>, raced |-> FALSE, matched |-> FALSE,
   requested |-> FALSE, succeeded |-> FALSE]

CmdIdle ==
  [pc |-> "idle", op |-> "", ok |-> FALSE, msg |-> "",
   addr |-> 0, size |-> 0, name |-> <<>>, file |-> <<>>,
   rest |-> <<>>, argv |-> <<>>, added |-> 0, rows |-> {}, bp_at |-> 0,
   target_valid |-> FALSE, bp_valid |-> FALSE]

\* Lines 957-961: the breakpoint on __jit_debug_register_code as setup
\* configures it.
RegistrationBp_OneShot ==
  [callback |-> "BreakpointCallback", one_shot |-> TRUE,
   auto_continue |-> TRUE, name |-> "__lldb_internal_jit_monitor"]
RegistrationBp ==
  [callback |-> "BreakpointCallback", one_shot |-> FALSE,
   auto_continue |-> TRUE, name |-> "__lldb_internal_jit_monitor"]

\* A hit of __jit_debug_register_code runs BreakpointCallback.
Wired ==
  \E i \in 1..Len(reg_bps) : reg_bps[i].callback = "BreakpointCallback"

\* The host deletes a one-shot breakpoint after its first hit.
StaysAfterHit(bp) == ~bp.one_shot

\* What the host debugger answers a command: whether a target is selected
\* and, with one selected, whether the breakpoint asked for is valid.
HostStates ==
  {[target_valid |-> FALSE, bp_valid |-> FALSE],
   [target_valid |-> TRUE, bp_valid |-> FALSE],
   [target_valid |-> TRUE, bp_valid |-> TRUE]}
Host(c, target_valid, bp_valid) ==
  [c EXCEPT !.target_valid = target_valid, !.bp_valid = bp_valid]

\* A record of the registry: what one upsert writes for its address.
Record(name, file, size) == [name |-> name, file |-> file, size |-> size]

\* No pure function is under test while the plugin runs.
NoProbe == [fn |-> "none", in |-> <<>>, out |-> <<>>]

\* The process is gone once a context has crashed.
Alive == cb.pc # "crashed"

\* std::lock_guard<std::mutex> lock(g_jit_mutex): who may enter.
CanLock_NoExclusion(who) == TRUE
CanLock(who) == g_jit_mutex = "free"

Init ==
  /\ g_jit_mutex = "free"
  /\ g_jit_functions = {}
  /\ g_jit_files = {}
  /\ g_jit_sizes = {}
  /\ g_pending_patterns = <<>>
  /\ g_active_bp_addrs = {}
  /\ reg_bps = <<>>
  /\ auto_bps = [a \in Addrs |-> 0]
  /\ committed = {}
  /\ cb = CbIdle
  /\ cmd = CmdIdle
  /\ probe = NoProbe

(***************************************************************************)
(* BreakpointCallback.                                                     *)
(***************************************************************************)
\* The value the callback returns on the path it leaves by.
CallbackReturn_StopOnMatch(path) == path = "first_bp_ok"
CallbackReturn(path) == FALSE

CbRet(path, fields) ==
  [CbIdle EXCEPT !.pc = "ret", !.path = path, !.ret = CallbackReturn(path),
                 !.ev = fields]

\* Lines 806-835: the number of reads of the debuggee's memory the callback
\* performs for an event, in the order version, action, relevant_entry,
\* next, prev, symfile_addr, symfile_size, blob.  Each read is followed by
\* "if (error.Fail()) return false".
ReadsDone_Retry(e) ==
  IF ~e.symbol THEN 0
  ELSE IF e.fail_at \in 1..3 THEN e.fail_at + 1
  ELSE IF e.entry = 0 \/ e.action # JIT_REGISTER_FN THEN 3
  ELSE IF e.fail_at \in 4..8 THEN e.fail_at + 1
  ELSE 8
ReadsDone_EntryAnyway(e) ==
  IF ~e.symbol THEN 0
  ELSE IF e.fail_at \in 1..3 THEN e.fail_at
  ELSE IF e.fail_at \in 4..8 THEN e.fail_at
  ELSE 8
ReadsDone(e) ==
  IF ~e.symbol THEN 0
  ELSE IF e.fail_at \in 1..3 THEN e.fail_at
  ELSE IF e.entry = 0 \/ e.action # JIT_REGISTER_FN THEN 3
  ELSE IF e.fail_at \in 4..8 THEN e.fail_at
  ELSE 8

\* The path of an event that does not reach the registry, "" when it does.
EarlyPath(e) ==
  IF ~e.symbol THEN "no_symbol"
  ELSE IF e.fail_at \in 1..3 THEN "read_fail"
  ELSE IF e.entry = 0 \/ e.action # JIT_REGISTER_FN THEN "no_entry"
  ELSE IF e.fail_at \in 4..8 THEN "read_fail"
  ELSE IF ~Decoded[e.fields].ok THEN "decode_fail"
  ELSE ""

\* The callback going from the decoder straight to the match of line 881.
CbBegin_MatchFirst(e) ==
  /\ Alive
  /\ cb.pc = "idle"
  /\ Wired
  /\ cb' = IF EarlyPath(e) # ""
           THEN [CbRet(EarlyPath(e), e.fields) EXCEPT
                   !.event = e, !.reads = ReadsDone(e)]
           ELSE [CbIdle EXCEPT !.pc = "match", !.ev = e.fields,
                               !.event = e, !.reads = ReadsDone(e),
                               !.code_addr = Decoded[e.fields].addr,
                               !.code_size = Decoded[e.fields].size,
                               !.func_name = Decoded[e.fields].name,
                               !.source_file = Decoded[e.fields].file]
  /\ UNCHANGED <<probe, committed, g_jit_mutex, registry, g_pending_patterns,
                 g_active_bp_addrs, reg_bps, auto_bps, cmd>>

\* The callback dropping the records on an event whose action is not
\* JIT_REGISTER_FN.
CbBegin_Unregisters(e) ==
  /\ Alive
  /\ cb.pc = "idle"
  /\ Wired
  /\ cb' = IF EarlyPath(e) # ""
           THEN [CbRet(EarlyPath(e), e.fields) EXCEPT
                   !.event = e, !.reads = ReadsDone(e)]
           ELSE [CbIdle EXCEPT !.pc = "lock", !.ev = e.fields,
                               !.event = e, !.reads = ReadsDone(e),
                               !.code_addr = Decoded[e.fields].addr,
                               !.code_size = Decoded[e.fields].size,
                               !.func_name = Decoded[e.fields].name,
                               !.source_file = Decoded[e.fields].file]
  /\ IF EarlyPath(e) = "no_entry" /\ e.action # JIT_REGISTER_FN
        /\ g_jit_mutex = "free"
     THEN g_jit_functions' = {} /\ g_jit_files' = {} /\ g_jit_sizes' = {}
     ELSE UNCHANGED registry
  /\ UNCHANGED <<probe, committed, g_jit_mutex, g_pending_patterns,
                 g_active_bp_addrs, reg_bps, auto_bps, cmd>>

\* Lines 784-855: resolve the descriptor, read the event, decode the blob.
\* Nothing the other context shares is touched.
CbBegin(e) ==
  /\ Alive
  /\ cb.pc = "idle"
  /\ Wired
  /\ cb' = IF EarlyPath(e) # ""
           THEN [CbRet(EarlyPath(e), e.fields) EXCEPT
                   !.event = e, !.reads = ReadsDone(e)]
           ELSE [CbIdle EXCEPT !.pc = "lock", !.ev = e.fields,
                               !.event = e, !.reads = ReadsDone(e),
                               !.code_addr = Decoded[e.fields].addr,
                               !.code_size = Decoded[e.fields].size,
                               !.func_name = Decoded[e.fields].name,
                               !.source_file = Decoded[e.fields].file]
  /\ UNCHANGED <<probe, committed, g_jit_mutex, registry, g_pending_patterns,
                 g_active_bp_addrs, reg_bps, auto_bps, cmd>>

\* Line 861: already_registered.
AlreadyRegistered_Never(addr) == FALSE
AlreadyRegistered(addr) == Has(g_jit_functions, addr)

\* Line 861 moved before line 860: the test runs without the mutex, the
\* writes under it.
CbStoreName_TestOutside ==
  /\ Alive
  /\ \/ /\ cb.pc = "lock"
        /\ cb' = [cb EXCEPT !.pc = "tested",
                            !.already_registered =
                               AlreadyRegistered(cb.code_addr)]
        /\ UNCHANGED <<g_jit_mutex, g_jit_functions>>
     \/ /\ cb.pc = "tested"
        /\ CanLock("cb")
        /\ g_jit_mutex' = "cb"
        /\ g_jit_functions' = Put(g_jit_functions, cb.code_addr, cb.func_name)
        /\ cb' = [cb EXCEPT !.pc = "cs_files"]
  /\ UNCHANGED <<probe, committed, g_jit_files, g_jit_sizes, g_pending_patterns,
                 g_active_bp_addrs, reg_bps, auto_bps, cmd>>

\* Lines 860-862: take the mutex, test the address, write the name.
CbStoreName ==
  /\ Alive
  /\ cb.pc = "lock"
  /\ CanLock("cb")
  /\ g_jit_mutex' = "cb"
  /\ g_jit_functions' = Put(g_jit_functions, cb.code_addr, cb.func_name)
  /\ cb' = [cb EXCEPT !.pc = "cs_files",
                      !.already_registered = AlreadyRegistered(cb.code_addr)]
  /\ UNCHANGED <<probe, committed, g_jit_files, g_jit_sizes, g_pending_patterns,
                 g_active_bp_addrs, reg_bps, auto_bps, cmd>>

\* Line 863, left out.
CbStoreFile_Skip ==
  /\ Alive
  /\ cb.pc = "cs_files"
  /\ cb' = [cb EXCEPT !.pc = "cs_sizes"]
  /\ UNCHANGED <<probe, committed, g_jit_mutex, registry,
                 g_pending_patterns, g_active_bp_addrs, reg_bps, auto_bps,
                 cmd>>

\* Line 863, merging: a blob without a file line keeps the file on record.
CbStoreFile_KeepOld ==
  /\ Alive
  /\ cb.pc = "cs_files"
  /\ g_jit_files' = IF cb.source_file = Unknown /\ Has(g_jit_files, cb.code_addr)
                    THEN g_jit_files
                    ELSE Put(g_jit_files, cb.code_addr, cb.source_file)
  /\ cb' = [cb EXCEPT !.pc = "cs_sizes"]
  /\ UNCHANGED <<probe, committed, g_jit_mutex, g_jit_functions, g_jit_sizes,
                 g_pending_patterns, g_active_bp_addrs, reg_bps, auto_bps,
                 cmd>>

\* Line 863.
CbStoreFile ==
  /\ Alive
  /\ cb.pc = "cs_files"
  /\ g_jit_files' = Put(g_jit_files, cb.code_addr, cb.source_file)
  /\ cb' = [cb EXCEPT !.pc = "cs_sizes"]
  /\ UNCHANGED <<probe, committed, g_jit_mutex, g_jit_functions, g_jit_sizes,
                 g_pending_patterns, g_active_bp_addrs, reg_bps, auto_bps,
                 cmd>>

\* Lines 867-870: whether the event is dropped as a duplicate.
SkipDuplicate_Never(already_registered) == FALSE
SkipDuplicate(already_registered) == already_registered

\* Lines 864-870: write the size, release the mutex, drop a duplicate.
CbStoreSize ==
  /\ Alive
  /\ cb.pc = "cs_sizes"
  /\ g_jit_sizes' = Put(g_jit_sizes, cb.code_addr, cb.code_size)
  /\ g_jit_mutex' = "free"
  /\ committed' = Put(committed, cb.code_addr,
                      Record(cb.func_name, cb.source_file, cb.code_size))
  /\ cb' = IF SkipDuplicate(cb.already_registered)
           THEN [cb EXCEPT !.pc = "ret", !.path = "duplicate",
                           !.ret = CallbackReturn("duplicate")]
           ELSE [cb EXCEPT !.pc = "match"]
  /\ UNCHANGED <<probe, g_jit_functions, g_jit_files, g_pending_patterns,
                 g_active_bp_addrs, reg_bps, auto_bps, cmd>>

\* Line 881, MatchesPending lines 536-541: the range-for takes begin() and
\* end() of g_pending_patterns.  No mutex is held.
CbMatchBegin ==
  /\ Alive
  /\ cb.pc = "match"
  /\ cb' = [cb EXCEPT !.pc = "matching", !.pats = g_pending_patterns,
                      !.raced = (cmd.pc = "pushing")]
  /\ UNCHANGED <<probe, committed, g_jit_mutex, registry, g_pending_patterns,
                 g_active_bp_addrs, reg_bps, auto_bps, cmd>>

\* What the iteration can produce: the match over the vector, or, when a
\* push_back ran during the iteration (a data race on the vector and its
\* storage), any result or a crash.
MatchOutcomes ==
  IF cb.raced THEN {"true", "false", "crash"}
  ELSE IF MatchesPending(cb.func_name, g_pending_patterns) THEN {"true"}
  ELSE {"false"}

\* Line 881: the condition under which the callback arms a breakpoint.
ShouldArm(matched, addr) == matched /\ addr \notin g_active_bp_addrs

\* Line 894 without the test of line 893.
ArmedAfter_Unconditional(succeeded, addr) == g_active_bp_addrs \cup {addr}

\* Lines 893-895: the armed set after the host ran the command.
ArmedAfter(succeeded, addr) ==
  IF succeeded THEN g_active_bp_addrs \cup {addr} ELSE g_active_bp_addrs

\* Lines 541-551 and 881-898: the iteration ends; on a match of an address
\* not armed yet the host runs "breakpoint set --address" and, when it
\* reports success, the address is recorded as armed.
CbMatchEnd ==
  /\ Alive
  /\ cb.pc = "matching"
  /\ \E outcome \in MatchOutcomes, succeeded \in BOOLEAN :
       IF outcome = "crash"
       THEN /\ cb' = [cb EXCEPT !.pc = "crashed"]
            /\ UNCHANGED <<g_active_bp_addrs, auto_bps>>
       ELSE IF ShouldArm(outcome = "true", cb.code_addr)
       THEN /\ auto_bps[cb.code_addr] < MaxAutoBps
            /\ auto_bps' = [auto_bps EXCEPT ![cb.code_addr] = @ + 1]
            /\ g_active_bp_addrs' = ArmedAfter(succeeded, cb.code_addr)
            /\ cb' = [cb EXCEPT
                 !.pc = "ret", !.matched = TRUE, !.requested = TRUE,
                 !.succeeded = succeeded,
                 !.path = IF succeeded THEN "first_bp_ok" ELSE "first_bp_fail",
                 !.ret = CallbackReturn(
                           IF succeeded THEN "first_bp_ok" ELSE "first_bp_fail")]
       ELSE /\ succeeded
            /\ cb' = [cb EXCEPT !.pc = "ret", !.matched = (outcome = "true"),
                                !.path = "first_no_bp",
                                !.ret = CallbackReturn("first_no_bp")]
            /\ UNCHANGED <<g_active_bp_addrs, auto_bps>>
  /\ UNCHANGED <<probe, committed, g_jit_mutex, registry, g_pending_patterns, reg_bps, cmd>>

\* The callback has returned to the host, which keeps the breakpoints
\* that are not one-shot.
CbReturn ==
  /\ Alive
  /\ cb.pc = "ret"
  /\ cb' = CbIdle
  /\ reg_bps' = SelectSeq(reg_bps, StaysAfterHit)
  /\ UNCHANGED <<probe, committed, g_jit_mutex, registry, g_pending_patterns,
                 g_active_bp_addrs, auto_bps, cmd>>

(***************************************************************************)
(* The operator commands.  A command line is the sequence of its           *)
(* arguments.                                                              *)
(***************************************************************************)
CmdRet(op, ok, msg) ==
  [CmdIdle EXCEPT !.pc = "ret", !.op = op, !.ok = ok, !.msg = msg]

\* s.find_last_of(cs)
FindLastOf(s, cs) ==
  IF \E i \in 1..Len(s) : s[i] \in cs
  THEN (CHOOSE i \in 1..Len(s) :
          s[i] \in cs /\ \A j \in (i + 1)..Len(s) : s[j] \notin cs) - 1
  ELSE npos

\* Lines 584-602: what list shows of a name and of a source file.
NameWidth == 30
NameKeep == 27
FileWidth == 40
FileKeep == 37
Ellipsis == <<".", ".", ".">>
PathSeparators == {"/", "\\"}

DisplayName(name) ==
  IF Len(name) > NameWidth THEN SubstrN(name, 0, NameKeep) \o Ellipsis
  ELSE name

DisplayFile(file) ==
  IF Len(file) > FileWidth
  THEN LET last_slash == FindLastOf(file, PathSeparators)
       IN  IF last_slash # npos THEN Ellipsis \o Substr(file, last_slash)
           ELSE SubstrN(file, 0, FileKeep) \o Ellipsis
  ELSE file

\* The row list prints for one address (lines 572-576): operator[] on the
\* file and size maps yields a default value for a key they lack.
Lookup(m, k, default) == IF Has(m, k) THEN Get(m, k) ELSE default
ListRow(a) ==
  [addr |-> a, name |-> Get(g_jit_functions, a),
   file |-> Lookup(g_jit_files, a, <<>>),
   size |-> Lookup(g_jit_sizes, a, 0),
   display_name |-> DisplayName(Get(g_jit_functions, a)),
   display_file |-> DisplayFile(Lookup(g_jit_files, a, <<>>))]

\* operator[] inserts the key it does not find.
Touch(m, keys, default) ==
  m \cup {<<k, default>> : k \in {x \in keys : ~Has(m, x)}}

\* DartJITListCommand::DoExecute, the whole of it under the mutex.
List ==
  /\ Alive
  /\ cmd.pc = "idle"
  /\ CanLock("cmd")
  /\ cmd' = IF g_jit_functions = {}
            THEN CmdRet("list", TRUE, "none_registered")
            ELSE [CmdRet("list", TRUE, "table") EXCEPT
                    !.rows = {ListRow(a) : a \in Keys(g_jit_functions)}]
  /\ g_jit_files' = Touch(g_jit_files, Keys(g_jit_functions), <<>>)
  /\ g_jit_sizes' = Touch(g_jit_sizes, Keys(g_jit_functions), 0)
  /\ UNCHANGED <<probe, committed, g_jit_mutex, g_jit_functions, g_pending_patterns,
                 g_active_bp_addrs, reg_bps, auto_bps, cb>>

BreakArgs == {<<"B">>, <<"b">>, <<"c">>}

\* Lines 636-642: the records whose name contains func_name; the loop
\* stops at the first one in the map's iteration order, which is any.
BreakCandidates_CaseInsensitive(func_name) ==
  {a \in Keys(g_jit_functions) :
     PatternHits(Get(g_jit_functions, a), func_name)}
BreakCandidates(func_name) ==
  {a \in Keys(g_jit_functions) :
     StrFind(Get(g_jit_functions, a), func_name) # npos}

\* DartJITBreakCommand::DoExecute.  command is <<>> or <<func_name>>;
\* the lookup runs under the mutex, the rest touches nothing shared.
\* bp_at is the address handed to BreakpointCreateByAddress, addr and size
\* are the ones of the message.
Break(command, target_valid, bp_valid) ==
  /\ Alive
  /\ cmd.pc = "idle"
  /\ IF command = <<>>
     THEN /\ cmd' = Host(CmdRet("break", FALSE, "usage"),
                         target_valid, bp_valid)
          /\ UNCHANGED g_jit_sizes
     ELSE IF ~target_valid
     THEN /\ cmd' = Host(CmdRet("break", FALSE, "no_target"),
                         target_valid, bp_valid)
          /\ UNCHANGED g_jit_sizes
     ELSE /\ CanLock("cmd")
          /\ \E func_addr \in
                IF BreakCandidates(command[1]) = {} THEN {0}
                ELSE BreakCandidates(command[1]) :
               /\ g_jit_sizes' =
                    IF func_addr = 0 THEN g_jit_sizes
                    ELSE Touch(g_jit_sizes, {func_addr}, 0)
               /\ cmd' =
                    IF func_addr = 0
                    THEN [CmdRet("break", FALSE, "not_found")
                            EXCEPT !.name = command[1],
                                   !.target_valid = target_valid,
                                   !.bp_valid = bp_valid]
                    ELSE [CmdRet("break", bp_valid,
                                 IF bp_valid THEN "bp_set" ELSE "bp_failed")
                            EXCEPT !.addr = func_addr,
                                   !.bp_at = func_addr,
                                   !.target_valid = target_valid,
                                   !.bp_valid = bp_valid,
                                   !.size = Lookup(g_jit_sizes, func_addr, 0),
                                   !.name = command[1]]
  /\ UNCHANGED <<probe, committed, g_jit_mutex, g_jit_functions, g_jit_files,
                 g_pending_patterns, g_active_bp_addrs, reg_bps, auto_bps,
                 cb>>

\* Address texts that strtoull reads as 0.
NoAddress == <<"z", "z">>
AddCommands ==
  {<<DecStr(0), DecStr(1)>>,
   <<DecStr(0), DecStr(1), NameB, FileF>>,
   <<HexStr(0), DecStr(1), NameB>>,
   <<NoAddress, DecStr(1), NameB>>}
  \cup {<<DecStr(a), DecStr(z), n>> :
          a \in 0..MaxAddr, z \in 0..MaxSize, n \in Names}
  \cup {<<DecStr(a), DecStr(z), n, f>> :
          a \in 1..MaxAddr, z \in 1..MaxSize, n \in {NameB}, f \in Files}

\* Lines 693-697: the address add refuses.
AddRejects_Nothing(addr, size) == FALSE
AddRejects(addr, size) == addr = 0

\* Lines 682-697: add refuses the command line.
AddRefuse(command) ==
  /\ Alive
  /\ cmd.pc = "idle"
  /\ \/ /\ Len(command) < 3
        /\ cmd' = [CmdRet("add", FALSE, "usage") EXCEPT !.rest = command]
     \/ /\ Len(command) >= 3
        /\ AddRejects(strtoull(command[1]), strtoull(command[2]))
        /\ cmd' = [CmdRet("add", FALSE, "invalid_address") EXCEPT
                     !.rest = command]
  /\ UNCHANGED <<probe, committed, g_jit_mutex, registry, g_pending_patterns,
                 g_active_bp_addrs, reg_bps, auto_bps, cb>>

\* Lines 688-701: parse the arguments, take the mutex, write the name.
AddStoreName(command) ==
  /\ Alive
  /\ cmd.pc = "idle"
  /\ Len(command) >= 3
  /\ ~AddRejects(strtoull(command[1]), strtoull(command[2]))
  /\ CanLock("cmd")
  /\ g_jit_mutex' = "cmd"
  /\ g_jit_functions' =
       Put(g_jit_functions, strtoull(command[1]), command[3])
  /\ cmd' = [CmdIdle EXCEPT
               !.pc = "add_files", !.op = "add", !.rest = command,
               !.addr = strtoull(command[1]),
               !.size = strtoull(command[2]),
               !.name = command[3],
               !.file = IF Len(command) >= 4 THEN command[4] ELSE Unknown]
  /\ UNCHANGED <<probe, committed, g_jit_files, g_jit_sizes, g_pending_patterns,
                 g_active_bp_addrs, reg_bps, auto_bps, cb>>

\* Line 702.
AddStoreFile ==
  /\ Alive
  /\ cmd.pc = "add_files"
  /\ g_jit_files' = Put(g_jit_files, cmd.addr, cmd.file)
  /\ cmd' = [cmd EXCEPT !.pc = "add_sizes"]
  /\ UNCHANGED <<probe, committed, g_jit_mutex, g_jit_functions, g_jit_sizes,
                 g_pending_patterns, g_active_bp_addrs, reg_bps, auto_bps,
                 cb>>

\* Lines 703-721 followed by the callback's lines 881-896.
AddStoreSize_Arms ==
  /\ Alive
  /\ cmd.pc = "add_sizes"
  /\ g_jit_sizes' = Put(g_jit_sizes, cmd.addr, cmd.size)
  /\ g_jit_mutex' = "free"
  /\ committed' = Put(committed, cmd.addr,
                      Record(cmd.name, cmd.file, cmd.size))
  /\ cmd' = [cmd EXCEPT !.pc = "ret", !.ok = TRUE, !.msg = "added"]
  /\ IF /\ ShouldArm(MatchesPending(cmd.name, g_pending_patterns), cmd.addr)
        /\ auto_bps[cmd.addr] < MaxAutoBps
     THEN /\ auto_bps' = [auto_bps EXCEPT ![cmd.addr] = @ + 1]
          /\ g_active_bp_addrs' = ArmedAfter(TRUE, cmd.addr)
     ELSE UNCHANGED <<auto_bps, g_active_bp_addrs>>
  /\ UNCHANGED <<probe, g_jit_functions, g_jit_files, g_pending_patterns,
                 reg_bps, cb>>

\* Lines 703-721: write the size, release the mutex, report.
AddStoreSize ==
  /\ Alive
  /\ cmd.pc = "add_sizes"
  /\ g_jit_sizes' = Put(g_jit_sizes, cmd.addr, cmd.size)
  /\ g_jit_mutex' = "free"
  /\ committed' = Put(committed, cmd.addr,
                      Record(cmd.name, cmd.file, cmd.size))
  /\ cmd' = [cmd EXCEPT !.pc = "ret", !.ok = TRUE, !.msg = "added"]
  /\ UNCHANGED <<probe, g_jit_functions, g_jit_files, g_pending_patterns,
                 g_active_bp_addrs, reg_bps, auto_bps, cb>>

WatchArgs == {<<>>, PatB, PatAb}
WatchCommands ==
  {<<>>} \cup {<<p>> : p \in WatchArgs}
         \cup {<<PatB, PatB>>, <<<<>>, PatAb>>, <<PatAb, PatB>>}

NonEmpty(command) ==
  Cardinality({i \in 1..Len(command) : command[i] # <<>>})

\* Lines 984-995: watch with no argument fails; otherwise the loop starts.
\* rest is what the loop has yet to read of the command line argv.
\* The pattern vector of the model holds at most MaxPatterns patterns.
WatchBegin(command) ==
  /\ Alive
  /\ cmd.pc = "idle"
  /\ Len(g_pending_patterns) + NonEmpty(command) <= MaxPatterns
  /\ cmd' = IF command = <<>>
            THEN CmdRet("watch", FALSE, "usage")
            ELSE [CmdIdle EXCEPT !.pc = "watch", !.op = "watch",
                                 !.rest = command, !.argv = command]
  /\ UNCHANGED <<probe, committed, g_jit_mutex, registry, g_pending_patterns,
                 g_active_bp_addrs, reg_bps, auto_bps, cb>>

\* Line 998: the patterns watch stores.
WatchStores_Dedup(pat) ==
  pat # <<>> /\ \A i \in 1..Len(g_pending_patterns) : g_pending_patterns[i] # pat
WatchStores_Any(pat) == TRUE
WatchStores(pat) == pat # <<>>

\* Lines 996-1010: the next argument: an empty one is skipped, another one
\* enters push_back; after the last one the count is reported.
WatchNext ==
  /\ Alive
  /\ cmd.pc = "watch"
  /\ IF cmd.rest = <<>>
     THEN /\ cmd' = [cmd EXCEPT !.pc = "ret", !.ok = TRUE, !.msg = "added"]
          /\ UNCHANGED cb
     ELSE IF ~WatchStores(Head(cmd.rest))
     THEN /\ cmd' = [cmd EXCEPT !.rest = Tail(@)]
          /\ UNCHANGED cb
     ELSE /\ cmd' = [cmd EXCEPT !.pc = "pushing"]
          /\ cb' = IF cb.pc = "matching" THEN [cb EXCEPT !.raced = TRUE]
                   ELSE cb
  /\ UNCHANGED <<probe, committed, g_jit_mutex, registry, g_pending_patterns,
                 g_active_bp_addrs, reg_bps, auto_bps>>

\* push_back followed by arming every record the new pattern matches.
WatchPush_Retroactive ==
  /\ Alive
  /\ cmd.pc = "pushing"
  /\ g_pending_patterns' = Append(g_pending_patterns, Head(cmd.rest))
  /\ g_active_bp_addrs' =
       g_active_bp_addrs \cup
         {a \in Keys(g_jit_functions) :
            PatternHits(Get(g_jit_functions, a), Head(cmd.rest))}
  /\ cmd' = [cmd EXCEPT !.pc = "watch", !.rest = Tail(@), !.added = @ + 1]
  /\ UNCHANGED <<probe, committed, g_jit_mutex, registry, reg_bps,
                 auto_bps, cb>>

\* Lines 999-1000: push_back completes.  No mutex is held.
WatchPush ==
  /\ Alive
  /\ cmd.pc = "pushing"
  /\ g_pending_patterns' = Append(g_pending_patterns, Head(cmd.rest))
  /\ cmd' = [cmd EXCEPT !.pc = "watch", !.rest = Tail(@), !.added = @ + 1]
  /\ UNCHANGED <<probe, committed, g_jit_mutex, registry, g_active_bp_addrs, reg_bps,
                 auto_bps, cb>>

\* Lines 957-961 run without the checks of lines 941-954.
Setup_WiresAnyway(target_valid, bp_valid) ==
  /\ Alive
  /\ cmd.pc = "idle"
  /\ Len(reg_bps) < MaxRegBps
  /\ reg_bps' = Append(reg_bps, RegistrationBp)
  /\ cmd' = Host(CmdRet("setup", target_valid /\ bp_valid, "enabled"),
                 target_valid, bp_valid)
  /\ UNCHANGED <<probe, committed, g_jit_mutex, registry, g_pending_patterns,
                 g_active_bp_addrs, auto_bps, cb>>

\* DartJITSetupCommand::DoExecute: with a valid target and a breakpoint on
\* __jit_debug_register_code, the callback is wired to a new breakpoint.
Setup(target_valid, bp_valid) ==
  /\ Alive
  /\ cmd.pc = "idle"
  /\ IF ~target_valid
     THEN /\ cmd' = Host(CmdRet("setup", FALSE, "no_target"),
                         target_valid, bp_valid)
          /\ UNCHANGED reg_bps
     ELSE IF ~bp_valid
     THEN /\ cmd' = Host(CmdRet("setup", FALSE, "no_breakpoint"),
                         target_valid, bp_valid)
          /\ UNCHANGED reg_bps
     ELSE /\ Len(reg_bps) < MaxRegBps
          /\ reg_bps' = Append(reg_bps, RegistrationBp)
          /\ cmd' = Host(CmdRet("setup", TRUE, "enabled"),
                         target_valid, bp_valid)
  /\ UNCHANGED <<probe, committed, g_jit_mutex, registry, g_pending_patterns,
                 g_active_bp_addrs, auto_bps, cb>>

\* setup by an operator who runs it until it has succeeded MaxSetups
\* times.
SetupOnce(target_valid, bp_valid) ==
  /\ Len(reg_bps) < MaxSetups
  /\ Setup(target_valid, bp_valid)

\* The command has returned to the interpreter.
CmdReturn ==
  /\ Alive
  /\ cmd.pc = "ret"
  /\ cmd' = CmdIdle
  /\ UNCHANGED <<probe, committed, g_jit_mutex, registry, g_pending_patterns,
                 g_active_bp_addrs, reg_bps, auto_bps, cb>>

CbStep ==
  \/ \E e \in Events : CbBegin(e)
  \/ CbStoreName
  \/ CbStoreFile
  \/ CbStoreSize
  \/ CbMatchBegin
  \/ CbMatchEnd
  \/ CbReturn

CmdStep ==
  \/ List
  \/ \E c \in {<<>>} \cup {<<a>> : a \in BreakArgs}, h \in HostStates :
        Break(c, h.target_valid, h.bp_valid)
  \/ \E c \in AddCommands : AddRefuse(c)
  \/ \E c \in AddCommands : AddStoreName(c)
  \/ AddStoreFile
  \/ AddStoreSize
  \/ \E c \in WatchCommands : WatchBegin(c)
  \/ WatchNext
  \/ WatchPush
  \/ \E h \in HostStates : SetupOnce(h.target_valid, h.bp_valid)
  \/ CmdReturn

Next == CbStep \/ CmdStep

Spec == Init /\ [][Next]_vars

(***************************************************************************)
(* ParseYAMLDebugInfo on its own: blobs made of up to MaxLines lines of    *)
(* the pool below.  A line is [kind, key, ws, value]: kind "kv" is the     *)
(* text  key ":" ws value ; kind "raw" is the text of value alone.         *)
(***************************************************************************)
MaxLines == 3

KV(key, ws, value) == [kind |-> "kv", key |-> key, ws |-> ws, value |-> value]
Raw(text) == [kind |-> "raw", key |-> <<>>, ws |-> <<>>, value |-> text]

\* The number a literal of the pool denotes.
NumLiterals ==
  { <<HexStr(1), 1>>, <<DecStr(0), 0>>, <<DecStr(2), 2>>,
    <<<<"0", "1", "0">>, 8>>, <<<<"z", "z">>, 0>>, <<<<>>, 0>> }

LinePool ==
  { KV(KeyName, <<" ">>, NameAB), KV(KeyName, <<>>, NameB),
    KV(KeyName, <<" ">>, <<>>),
    KV(KeyStart, <<" ">>, HexStr(1)), KV(KeyStart, <<" ", "\t">>, DecStr(0)),
    KV(KeyStart, <<" ">>, <<"0", "1", "0">>), KV(KeyStart, <<" ">>, <<"z", "z">>),
    KV(KeySize, <<" ">>, DecStr(2)), KV(KeySize, <<>>, DecStr(0)),
    KV(KeyFile, <<" ">>, FileF),
    KV(KeyFile, <<" ">>, <<"p", ":", "f">>),
    KV(KeyName, <<" ", "\t">>, <<"b", " ">>),
    KV(<<"n", "a", "m", "e", " ">>, <<>>, NameB),
    KV(<<"n", "o", "t", "e">>, <<" ">>, <<"x">>),
    Raw(<<"j", "u", "n", "k">>), Raw(DocMarker), Raw(<<>>) }

LineText(l) == IF l.kind = "kv" THEN l.key \o <<":">> \o l.ws \o l.value
               ELSE l.value

RECURSIVE JoinLines(_)
JoinLines(ls) ==
  IF ls = <<>> THEN <<>>
  ELSE LineText(Head(ls)) \o <<"\n">> \o JoinLines(Tail(ls))

ParseInputs == UNION {[1..n -> LinePool] : n \in 0..MaxLines}

InitParse ==
  /\ g_jit_mutex = "free"
  /\ g_jit_functions = {}
  /\ g_jit_files = {}
  /\ g_jit_sizes = {}
  /\ g_pending_patterns = <<>>
  /\ g_active_bp_addrs = {}
  /\ reg_bps = <<>>
  /\ auto_bps = [a \in Addrs |-> 0]
  /\ committed = {}
  /\ cb = CbIdle
  /\ cmd = CmdIdle
  /\ probe \in {[fn |-> "ParseYAMLDebugInfo", in |-> ls, out |-> <<>>] :
                  ls \in ParseInputs}

\* The call ParseYAMLDebugInfo(yaml, addr, size, name, file) on the blob.
ParseApply ==
  /\ probe.fn = "ParseYAMLDebugInfo"
  /\ probe.out = <<>>
  /\ probe' = [probe EXCEPT !.out = <<ParseYAMLDebugInfo(JoinLines(probe.in))>>]
  /\ UNCHANGED <<g_jit_mutex, registry, g_pending_patterns,
                 g_active_bp_addrs, reg_bps, auto_bps, committed, cb, cmd>>

NextParse == ParseApply

SpecParse == InitParse /\ [][NextParse]_vars

(***************************************************************************)
(* What the lines of a blob say, read off the lines without the decoder:   *)
(* the value of the last line of a key, "unknown" or 0 without one.        *)
(***************************************************************************)
KeyLines(ls, key) ==
  {i \in 1..Len(ls) : ls[i].kind = "kv" /\ ls[i].key = key}
LastLine(ls, key) ==
  ls[CHOOSE i \in KeyLines(ls, key) : \A j \in KeyLines(ls, key) : j <= i]
NumOf(v) == (CHOOSE p \in NumLiterals : p[1] = v)[2]
SaidText(ls, key) ==
  IF KeyLines(ls, key) = {} THEN Unknown ELSE LastLine(ls, key).value
SaidNum(ls, key) ==
  IF KeyLines(ls, key) = {} THEN 0 ELSE NumOf(LastLine(ls, key).value)

ParseDone == probe.fn = "ParseYAMLDebugInfo" /\ probe.out # <<>>

\* C5: ParseYAMLDebugInfo returns true exactly when the start and the size
\* the blob states are both non-zero (missing or non-numeric counting as
\* 0), and on success its four outputs are the values of the name, start,
\* size and file lines of the blob, "unknown" for an absent name or file.
C5_DecodeExact ==
  ParseDone =>
    LET o == probe.out[1]
        ls == probe.in
    IN  /\ o.ok <=> (SaidNum(ls, KeyStart) # 0 /\ SaidNum(ls, KeySize) # 0)
        /\ o.ok => /\ o.addr = SaidNum(ls, KeyStart)
                   /\ o.size = SaidNum(ls, KeySize)
                   /\ o.name = SaidText(ls, KeyName)
                   /\ o.file = SaidText(ls, KeyFile)

(***************************************************************************)
(* Properties of the plugin.                                               *)
(***************************************************************************)
CbPaths == {"no_symbol", "read_fail", "no_entry", "decode_fail",
            "duplicate", "first_no_bp", "first_bp_ok", "first_bp_fail"}
FirstSightingPaths == {"first_no_bp", "first_bp_ok", "first_bp_fail"}

\* C1: the callback runs at most one "breakpoint set --address" per
\* address, and an armed address has exactly one.
C1_AtMostOneAutoBp ==
  \A a \in Addrs :
    /\ auto_bps[a] <= 1
    /\ a \in g_active_bp_addrs => auto_bps[a] = 1

\* A later delivery of an event whose name matches a pending pattern has
\* returned, and its address stays armed with its one breakpoint.
C1_Witness ==
  /\ cb.pc = "ret"
  /\ cb.path = "duplicate"
  /\ MatchesPending(cb.func_name, g_pending_patterns)
  /\ cb.code_addr \in g_active_bp_addrs
  /\ auto_bps[cb.code_addr] = 1

\* The callback is between the write that made a a registry key and the
\* end of its handling of a as a first sighting.
FirstSightingInFlight(a) ==
  /\ cb.code_addr = a
  /\ cb.pc \in {"cs_files", "cs_sizes", "match", "matching"}
  /\ ~cb.already_registered

\* C2: once an address is a registry key, no step other than those of the
\* callback invocation that saw it first evaluates the matcher for it,
\* runs a breakpoint command for it or changes its membership of the
\* armed set.
C2_DuplicateInert ==
  [][\A a \in Addrs :
       (Has(g_jit_functions, a) /\ ~FirstSightingInFlight(a)) =>
          /\ auto_bps'[a] = auto_bps[a]
          /\ (a \in g_active_bp_addrs') <=> (a \in g_active_bp_addrs)
          /\ ~(cb'.code_addr = a /\ cb'.pc \in {"match", "matching"})]_vars

\* A later sighting has returned whose name matches a pattern now pending,
\* and its address has no breakpoint and is not armed.
C2_Witness ==
  /\ cb.pc = "ret"
  /\ cb.path = "duplicate"
  /\ MatchesPending(cb.func_name, g_pending_patterns)
  /\ cb.code_addr \notin g_active_bp_addrs
  /\ auto_bps[cb.code_addr] = 0

\* C3: when the callback returns from a first sighting: if the name
\* matches a pattern that was pending when the matcher began (cb.pats) and
\* the host did not report a failure, a breakpoint command was run for the
\* address the blob states and that address is armed; if the name matches
\* no pattern stored or being stored, no breakpoint command was run.
C3_FirstSightingArms ==
  (cb.pc = "ret" /\ cb.path \in FirstSightingPaths) =>
    LET a == FieldsStart(cb.ev)
    IN  /\ (/\ MatchesPending(cb.func_name, cb.pats)
            /\ ~(cb.requested /\ ~cb.succeeded))
           => /\ cb.requested
              /\ auto_bps[a] = 1
              /\ a \in g_active_bp_addrs
        /\ (/\ ~MatchesPending(cb.func_name, g_pending_patterns)
            /\ ~(cmd.pc = "pushing" /\ PatternHits(cb.func_name, Head(cmd.rest))))
           => ~cb.requested

\* C4: the step in which the callback reads an event whose blob states no
\* non-zero start or no non-zero size ends the callback on the decode
\* failure path and changes neither the registry nor the pattern vector
\* nor the armed set, and runs no breakpoint command.
C4_DecodeFailureInert ==
  [][(/\ cb.pc = "idle"
      /\ cb'.pc # "idle"
      /\ cb'.path \notin {"no_symbol", "read_fail", "no_entry"}
      /\ ~FieldsDecodable(cb'.ev))
     => /\ cb'.pc = "ret"
        /\ cb'.path = "decode_fail"
        /\ UNCHANGED <<g_jit_mutex, registry, g_pending_patterns,
                       g_active_bp_addrs, auto_bps>>]_vars

\* The callback has dropped an undecodable blob while the registry and the
\* pattern vector hold something.
C4_Witness ==
  /\ cb.pc = "ret"
  /\ cb.path = "decode_fail"
  /\ g_jit_functions # {}
  /\ g_pending_patterns # <<>>

\* A context is inside a critical section of g_jit_mutex.
InCritical ==
  \/ cb.pc \in {"cs_files", "cs_sizes"}
  \/ cmd.pc \in {"add_files", "add_sizes"}

\* C6: outside the critical sections the three maps have the same keys.
C6_SameKeys ==
  ~InCritical =>
    /\ Keys(g_jit_functions) = Keys(g_jit_files)
    /\ Keys(g_jit_functions) = Keys(g_jit_sizes)

\* Both writers have written: add has returned and the callback has left
\* its critical section.
C6_Witness ==
  /\ ~InCritical
  /\ g_jit_functions # {}
  /\ cb.pc = "match"
  /\ cmd.pc = "ret" /\ cmd.op = "add" /\ cmd.ok

\* C7: every size the registry records is greater than 0.
C7_SizesPositive == \A p \in g_jit_sizes : p[2] > 0

\* C8: the callback never iterates the pattern vector while watch is
\* inside push_back on it.
C8_NoPatternRace == ~(cb.pc = "matching" /\ cmd.pc = "pushing")

\* C9: the rows list prints, and the address and size break reports, are
\* those of the last completed upsert of their address, whose name is the
\* one break matched.
C9_NoTornRead ==
  [][(cmd.pc = "idle" /\ cmd'.pc = "ret") =>
       /\ (cmd'.op = "list") =>
            \A r \in cmd'.rows :
              /\ Has(committed, r.addr)
              /\ Get(committed, r.addr) = Record(r.name, r.file, r.size)
       /\ (cmd'.op = "break" /\ cmd'.addr # 0) =>
            /\ Has(committed, cmd'.addr)
            /\ Get(committed, cmd'.addr).size = cmd'.size
            /\ StrFind(Get(committed, cmd'.addr).name, cmd'.name) # npos]_vars

\* list has printed a row of an address that the callback is now
\* overwriting with another record.
C9_Witness ==
  /\ cmd.pc = "ret" /\ cmd.op = "list" /\ cmd.rows # {}
  /\ cb.pc = "cs_files"
  /\ \E r \in cmd.rows :
       /\ r.addr = cb.code_addr
       /\ r.name # cb.func_name
       /\ r.file # cb.source_file

\* C10: on whichever path the callback returns, it returns false.
C10_ReturnsFalse ==
  cb.pc = "ret" => (cb.path \in CbPaths /\ cb.ret = FALSE)

\* The callback returns after the host created the breakpoint it asked for.
C10_Witness == cb.pc = "ret" /\ cb.path = "first_bp_ok"

\* The shared state the callback and the commands work on, other than the
\* mutex.
plugin_state == <<registry, g_pending_patterns, g_active_bp_addrs>>

\* C11: when the descriptor symbol does not resolve the callback reads no
\* memory, and when a read it performs fails that read is the last one
\* of the event; in both cases the callback returns in that step and the
\* registry, the pattern vector, the armed set and the breakpoints are
\* unchanged.
C11_ReadFailureAborts ==
  [][(/\ cb.pc = "idle"
      /\ cb'.pc # "idle"
      /\ \/ ~cb'.event.symbol
         \/ cb'.event.fail_at # 0 /\ cb'.reads >= cb'.event.fail_at)
     => /\ cb'.pc = "ret"
        /\ cb'.reads = IF cb'.event.symbol THEN cb'.event.fail_at ELSE 0
        /\ UNCHANGED <<plugin_state, g_jit_mutex, auto_bps>>]_vars

\* The read of the blob, the last of the eight, has failed while the
\* registry and the pattern vector hold something.
C11_Witness ==
  /\ cb.pc = "ret"
  /\ cb.path = "read_fail"
  /\ cb.event.fail_at = 8
  /\ cb.reads = 8
  /\ g_jit_functions # {}
  /\ g_pending_patterns # <<>>

\* C12: when the three descriptor fields were read and relevant_entry is
\* null or action is not the register code, the callback returns in that
\* step having read nothing but the descriptor, and the registry, the
\* pattern vector, the armed set and the breakpoints are unchanged.
C12_NoRegistrationInert ==
  [][(/\ cb.pc = "idle"
      /\ cb'.pc # "idle"
      /\ cb'.event.symbol
      /\ cb'.event.fail_at \notin 1..3
      /\ cb'.event.entry = 0 \/ cb'.event.action # JIT_REGISTER_FN)
     => /\ cb'.pc = "ret"
        /\ cb'.reads = 3
        /\ UNCHANGED <<plugin_state, g_jit_mutex, auto_bps>>]_vars

\* An unregister event with a non-null entry has been dropped while the
\* registry holds a record.
C12_Witness ==
  /\ cb.pc = "ret"
  /\ cb.path = "no_entry"
  /\ cb.event.action = 2
  /\ cb.event.entry # 0
  /\ cb.reads = 3
  /\ g_jit_functions # {}

(***************************************************************************)
(* MatchesPending on its own: a name of up to MaxNameLen characters        *)
(* against a vector of up to MaxPatList patterns.                          *)
(***************************************************************************)
MaxNameLen == 3
MaxPatList == 2

MatchChars == {"a", "A", "b"}
MatchNames == UNION {[1..n -> MatchChars] : n \in 0..MaxNameLen}
MatchPatterns ==
  { <<>>, <<"a">>, <<"A">>, <<"b">>, <<"a", "B">>, <<"A", "b">>,
    <<"b", "B">> }
MatchLists == UNION {[1..n -> MatchPatterns] : n \in 0..MaxPatList}

InitMatch ==
  /\ g_jit_mutex = "free"
  /\ g_jit_functions = {}
  /\ g_jit_files = {}
  /\ g_jit_sizes = {}
  /\ g_pending_patterns = <<>>
  /\ g_active_bp_addrs = {}
  /\ reg_bps = <<>>
  /\ auto_bps = [a \in Addrs |-> 0]
  /\ committed = {}
  /\ cb = CbIdle
  /\ cmd = CmdIdle
  /\ probe \in {[fn |-> "MatchesPending",
                 in |-> [name |-> n, patterns |-> ps], out |-> <<>>] :
                  n \in MatchNames, ps \in MatchLists}

\* The call MatchesPending(fn) with g_pending_patterns = patterns.
MatchApply ==
  /\ probe.fn = "MatchesPending"
  /\ probe.out = <<>>
  /\ probe' = [probe EXCEPT
                 !.out = <<MatchesPending(probe.in.name, probe.in.patterns)>>]
  /\ UNCHANGED <<g_jit_mutex, registry, g_pending_patterns,
                 g_active_bp_addrs, reg_bps, auto_bps, committed, cb, cmd>>

NextMatch == MatchApply

SpecMatch == InitMatch /\ [][NextMatch]_vars

MatchDone == probe.fn = "MatchesPending" /\ probe.out # <<>>

\* p occurs in s as a run of consecutive characters.
Contiguous(p, s) ==
  \E i \in 1..(Len(s) + 1), j \in 0..Len(s) : SubSeq(s, i, j) = p

\* C13: MatchesPending(name) is true exactly when some stored pattern,
\* lower-cased, occurs in the lower-cased name as a run of consecutive
\* characters, wherever in the name; with no stored pattern it is false.
C13_MatchIsSubstring ==
  MatchDone =>
    /\ probe.out[1] <=>
         \E k \in 1..Len(probe.in.patterns) :
           Contiguous(ToLowerStr(probe.in.patterns[k]),
                      ToLowerStr(probe.in.name))
    /\ probe.in.patterns = <<>> => ~probe.out[1]

\* The second of two patterns matched, in another case, in the middle of
\* the name: neither at its start nor at its end.
C13_Witness ==
  /\ MatchDone
  /\ probe.in.name = <<"b", "A", "b">>
  /\ probe.in.patterns = <<<<"b", "B">>, <<"a">>>>
  /\ probe.out[1]

\* The patterns a vector holds, and the vectors of up to MaxPatterns
\* patterns that hold the same ones.
Stored(patterns) == {patterns[i] : i \in 1..Len(patterns)}
SameStored(patterns) ==
  {ps \in UNION {[1..n -> Stored(patterns)] : n \in 0..MaxPatterns} :
     Stored(ps) = Stored(patterns)}

\* C14: watch stores a non-empty argument whether or not the vector holds
\* it already, as one more entry at the end; and for every name
\* MatchesPending gives one result on the vector a push leaves and on all
\* vectors that hold the same patterns, whatever their order and however
\* often each occurs.
C14_DuplicatesEquivalent ==
  [][/\ (/\ cmd.pc = "watch"
         /\ cmd' # cmd
         /\ cmd.rest # <<>>
         /\ Head(cmd.rest) # <<>>) => cmd'.pc = "pushing"
     /\ (cmd.pc = "pushing" /\ cmd' # cmd)
          => g_pending_patterns' =
               Append(g_pending_patterns, Head(cmd.rest))
     /\ g_pending_patterns' # g_pending_patterns
          => \A n \in MatchNames : \A ps \in SameStored(g_pending_patterns') :
               MatchesPending(n, ps) = MatchesPending(n, g_pending_patterns')]_vars

\* One watch command has stored the same pattern twice.
C14_Witness ==
  /\ cmd.pc = "ret" /\ cmd.op = "watch" /\ cmd.added = 2
  /\ g_pending_patterns = <<PatB, PatB>>

\* C15: break <name> that gets past its argument and target checks and
\* whose breakpoint the host creates: it fails with "not found" exactly
\* when no record's name contains <name>, case observed; otherwise it
\* succeeds, the breakpoint is created at the address of a record whose
\* name contains <name>, and the address and size it reports are that
\* record's.
C15_BreakByName ==
  [][(/\ cmd.pc = "idle"
      /\ cmd'.pc = "ret"
      /\ cmd'.op = "break"
      /\ cmd'.msg \notin {"usage", "no_target", "bp_failed"})
     => /\ (cmd'.msg = "not_found" /\ ~cmd'.ok) <=>
             ~\E a \in Keys(g_jit_functions) :
                Contiguous(cmd'.name, Get(g_jit_functions, a))
        /\ cmd'.msg # "not_found" =>
             /\ cmd'.ok
             /\ cmd'.msg = "bp_set"
             /\ Has(g_jit_functions, cmd'.bp_at)
             /\ Contiguous(cmd'.name, Get(g_jit_functions, cmd'.bp_at))
             /\ cmd'.addr = cmd'.bp_at
             /\ Has(g_jit_sizes, cmd'.bp_at)
             /\ cmd'.size = Get(g_jit_sizes, cmd'.bp_at)]_vars

\* break B has set a breakpoint on a record named "aB", which break b
\* would not have found, and reports its address and size.
C15_Witness ==
  /\ cmd.pc = "ret" /\ cmd.op = "break" /\ cmd.msg = "bp_set"
  /\ cmd.name = <<"B">>
  /\ cmd.bp_at \in Addrs
  /\ Get(g_jit_functions, cmd.bp_at) = NameAB
  /\ cmd.size = Get(g_jit_sizes, cmd.bp_at)

\* The address arguments of the model that denote 0.
ZeroAddressTexts == {<<"0">>, <<"0", "x", "0">>, <<"z", "z">>}

\* C16: an add command whose address argument denotes 0 returns with
\* failure status in its first step, whatever follows the address, and
\* the three maps are unchanged.
C16_AddZeroRejected ==
  [][(/\ cmd.pc = "idle"
      /\ cmd'.op = "add"
      /\ cmd'.rest # <<>>
      /\ cmd'.rest[1] \in ZeroAddressTexts)
     => /\ cmd'.pc = "ret"
        /\ ~cmd'.ok
        /\ UNCHANGED <<registry, g_jit_mutex>>]_vars

\* add 0 1 b f has been refused for its address while the registry holds
\* a record.
C16_Witness ==
  /\ cmd.pc = "ret" /\ cmd.op = "add" /\ cmd.msg = "invalid_address"
  /\ cmd.rest = <<DecStr(0), DecStr(1), NameB, FileF>>
  /\ g_jit_functions # {}

\* C17: no step of an add command evaluates the matcher, runs a
\* breakpoint command, or changes the pattern vector or the armed set;
\* the callback's state is untouched by it.
C17_AddBypassesEvents ==
  [][(cmd' # cmd /\ (cmd.op = "add" \/ cmd'.op = "add"))
     => UNCHANGED <<g_pending_patterns, g_active_bp_addrs, auto_bps, cb>>]_vars

\* add has stored a record whose name matches a pending pattern, and its
\* address has no breakpoint and is not armed.
C17_Witness ==
  /\ cmd.pc = "ret" /\ cmd.op = "add" /\ cmd.ok
  /\ MatchesPending(cmd.name, g_pending_patterns)
  /\ Get(g_jit_functions, cmd.addr) = cmd.name
  /\ auto_bps[cmd.addr] = 0
  /\ cmd.addr \notin g_active_bp_addrs

(***************************************************************************)
(* The two writers of the registry on their own: the callback is wired,    *)
(* the registry already holds a record at an address beyond those of the   *)
(* events and add commands, and the operator only runs add.                *)
(***************************************************************************)
FarAddr == MaxAddr + 1
FarRecord == Record(NameAB, FileF, MaxSize)

InitUpsert ==
  /\ g_jit_mutex = "free"
  /\ g_jit_functions = {<<FarAddr, FarRecord.name>>}
  /\ g_jit_files = {<<FarAddr, FarRecord.file>>}
  /\ g_jit_sizes = {<<FarAddr, FarRecord.size>>}
  /\ g_pending_patterns \in {<<>>, <<PatB>>}
  /\ g_active_bp_addrs = {}
  /\ reg_bps = <<RegistrationBp>>
  /\ auto_bps = [a \in Addrs |-> 0]
  /\ committed = {<<FarAddr, FarRecord>>}
  /\ cb = CbIdle
  /\ cmd = CmdIdle
  /\ probe = NoProbe

NextUpsert ==
  \/ CbStep
  \/ \E c \in AddCommands : AddRefuse(c)
  \/ \E c \in AddCommands : AddStoreName(c)
  \/ AddStoreFile
  \/ AddStoreSize
  \/ CmdReturn

SpecUpsert == InitUpsert /\ [][NextUpsert]_vars

\* The record an input states, read off the input: the lines of an
\* event's blob, the arguments of an add command.
TextOr(field, default) == IF field = <<>> THEN default ELSE field[1]
EventSaid(fields) ==
  Record(TextOr(fields.name, Unknown), TextOr(fields.file, Unknown),
         FieldsSize(fields))
DecNum(text) == CHOOSE n \in 0..(MaxAddr + MaxSize) : DecStr(n) = text
AddSaid(command) ==
  Record(command[3], IF Len(command) >= 4 THEN command[4] ELSE Unknown,
         DecNum(command[2]))

\* The record the three maps hold for an address after the step.
RecordAfter(a) ==
  Record(Get(g_jit_functions', a), Get(g_jit_files', a), Get(g_jit_sizes', a))

\* After the step the registry holds record r at address a and, at every
\* other address, the record it held.
Superseded(a, r) ==
  /\ Keys(g_jit_functions') = Keys(committed) \cup {a}
  /\ Keys(g_jit_files') = Keys(g_jit_functions')
  /\ Keys(g_jit_sizes') = Keys(g_jit_functions')
  /\ RecordAfter(a) = r
  /\ \A b \in Keys(committed) \ {a} : RecordAfter(b) = Get(committed, b)

\* C18: the step that completes an upsert, by the callback or by add, at
\* an address that has a record leaves at that address exactly the record
\* the input states, "unknown" standing for a name or file it does not
\* state, and leaves the records of all other addresses as they were.
C18_UpsertReplaces ==
  [][/\ (/\ cb.pc = "cs_sizes" /\ cb'.pc # "cs_sizes"
         /\ Has(committed, FieldsStart(cb.ev)))
          => Superseded(FieldsStart(cb.ev), EventSaid(cb.ev))
     /\ (/\ cmd.pc = "add_sizes" /\ cmd'.pc # "add_sizes"
         /\ Has(committed, DecNum(cmd.rest[1])))
          => Superseded(DecNum(cmd.rest[1]), AddSaid(cmd.rest))]_vars

\* A blob that states only start and size has replaced a record that add
\* had stored with a name and a file: name and file are now "unknown".
C18_Witness ==
  /\ cb.pc = "ret" /\ cb.path = "duplicate"
  /\ cb.ev.name = <<>> /\ cb.ev.file = <<>>
  /\ cmd.pc = "ret" /\ cmd.op = "add" /\ Len(cmd.rest) = 4
  /\ cmd.addr = cb.code_addr
  /\ Get(g_jit_functions, cb.code_addr) = Unknown
  /\ Get(g_jit_files, cb.code_addr) = Unknown
  /\ Get(g_jit_functions, FarAddr) = FarRecord.name

\* The non-empty arguments of a command line, in order.
IsNonEmpty(arg) == arg # <<>>
NonEmptyArgs(command) == SelectSeq(command, IsNonEmpty)

\* C19: no step removes or moves a stored pattern; when watch returns
\* from a command line with arguments, the vector ends with the non-empty
\* arguments in their order and the count reported is their number; watch
\* without an argument fails in its first step with the vector unchanged.
C19_WatchAppends ==
  [][/\ Len(g_pending_patterns') >= Len(g_pending_patterns)
     /\ SubSeq(g_pending_patterns', 1, Len(g_pending_patterns))
          = g_pending_patterns
     /\ (cmd.pc = "watch" /\ cmd'.pc = "ret") =>
          LET stored == NonEmptyArgs(cmd.argv)
              n == Len(g_pending_patterns')
          IN  /\ cmd'.ok
              /\ cmd'.added = Len(stored)
              /\ n >= Len(stored)
              /\ SubSeq(g_pending_patterns', n - Len(stored) + 1, n) = stored
     /\ (cmd.pc = "idle" /\ cmd'.op = "watch" /\ cmd'.argv = <<>>) =>
          /\ cmd'.pc = "ret"
          /\ ~cmd'.ok
          /\ UNCHANGED g_pending_patterns]_vars

\* watch "" Ab has returned: one pattern added after the one an earlier
\* watch had stored.
C19_Witness ==
  /\ cmd.pc = "ret" /\ cmd.op = "watch" /\ cmd.ok
  /\ cmd.argv = <<<<>>, PatAb>>
  /\ cmd.added = 1
  /\ g_pending_patterns = <<PatB, PatAb>>

\* C20: list changes neither the three maps nor the pattern vector nor
\* the armed set nor the breakpoints; on an empty registry it prints the
\* "no functions registered" message and no table, otherwise one row per
\* registered address.
C20_ListReadOnly ==
  [][(cmd.pc = "idle" /\ cmd'.op = "list")
     => /\ UNCHANGED <<plugin_state, g_jit_mutex, auto_bps, reg_bps>>
        /\ cmd'.pc = "ret"
        /\ IF g_jit_functions = {}
           THEN cmd'.msg = "none_registered" /\ cmd'.rows = {}
           ELSE /\ cmd'.msg = "table"
                /\ {r.addr : r \in cmd'.rows} = Keys(g_jit_functions)]_vars

\* list has printed a table while the callback waits for the mutex with
\* another record, and patterns are pending.
C20_Witness ==
  /\ cmd.pc = "ret" /\ cmd.op = "list" /\ cmd.msg = "table"
  /\ cmd.rows # {}
  /\ cb.pc = "lock"
  /\ g_pending_patterns # <<>>

(***************************************************************************)
(* The two display rules of list on their own: a text of up to             *)
(* MaxDisplayLen characters, without a path separator or with one, shown   *)
(* as a name and as a source file.                                         *)
(***************************************************************************)
MaxDisplayLen == 44

Filler(n) == [i \in 1..n |-> "x"]
DisplayTexts ==
  {Filler(n) : n \in 0..MaxDisplayLen}
  \cup UNION {{[Filler(n) EXCEPT ![k] = sep] :
                  k \in 1..n, sep \in PathSeparators} :
               n \in 1..MaxDisplayLen}

InitDisplay ==
  /\ g_jit_mutex = "free"
  /\ g_jit_functions = {}
  /\ g_jit_files = {}
  /\ g_jit_sizes = {}
  /\ g_pending_patterns = <<>>
  /\ g_active_bp_addrs = {}
  /\ reg_bps = <<>>
  /\ auto_bps = [a \in Addrs |-> 0]
  /\ committed = {}
  /\ cb = CbIdle
  /\ cmd = CmdIdle
  /\ probe \in {[fn |-> "Display", in |-> t, out |-> <<>>] :
                  t \in DisplayTexts}

\* The text goes through both display rules.
DisplayApply ==
  /\ probe.fn = "Display"
  /\ probe.out = <<>>
  /\ probe' = [probe EXCEPT
                 !.out = <<[name |-> DisplayName(probe.in),
                            file |-> DisplayFile(probe.in)]>>]
  /\ UNCHANGED <<g_jit_mutex, registry, g_pending_patterns,
                 g_active_bp_addrs, reg_bps, auto_bps, committed, cb, cmd>>

NextDisplay == DisplayApply

SpecDisplay == InitDisplay /\ [][NextDisplay]_vars

DisplayDone == probe.fn = "Display" /\ probe.out # <<>>

NextSetup ==
  \/ CbStep
  \/ \E h \in HostStates : Setup(h.target_valid, h.bp_valid)
  \/ CmdReturn

SpecSetup == Init /\ [][NextSetup]_vars

\* C22: setup without a valid target, or whose breakpoint on the
\* registration symbol is not valid, and break without a valid target
\* return failed in their first step; setup has wired nothing, break has
\* created no breakpoint, and the registry, the pattern vector, the armed
\* set and the breakpoints are unchanged.
C22_TargetErrorsInert ==
  [][/\ (/\ cmd.pc = "idle"
         /\ cmd'.op = "setup"
         /\ ~cmd'.target_valid \/ ~cmd'.bp_valid)
          => /\ cmd'.pc = "ret"
             /\ ~cmd'.ok
             /\ UNCHANGED <<reg_bps, plugin_state, g_jit_mutex, auto_bps>>
     /\ (/\ cmd.pc = "idle"
         /\ cmd'.op = "break"
         /\ ~cmd'.target_valid)
          => /\ cmd'.pc = "ret"
             /\ ~cmd'.ok
             /\ cmd'.bp_at = 0
             /\ UNCHANGED <<reg_bps, plugin_state, g_jit_mutex, auto_bps>>]_vars

\* setup has failed on a target in which the registration symbol gives no
\* valid breakpoint: the callback is not wired.
C22_Witness ==
  /\ cmd.pc = "ret" /\ cmd.op = "setup" /\ cmd.msg = "no_breakpoint"
  /\ cmd.target_valid /\ ~cmd.bp_valid
  /\ reg_bps = <<>>
  /\ g_jit_functions # {}

\* C23: a setup that succeeds adds a breakpoint with the callback wired,
\* auto-continue on and one-shot off; no step removes or changes a
\* breakpoint setup created.
C23_RegistrationBpStays ==
  [][/\ (cmd.pc = "idle" /\ cmd'.op = "setup" /\ cmd'.ok)
          => /\ Len(reg_bps') = Len(reg_bps) + 1
             /\ reg_bps'[Len(reg_bps')].callback = "BreakpointCallback"
             /\ reg_bps'[Len(reg_bps')].auto_continue
             /\ ~reg_bps'[Len(reg_bps')].one_shot
     /\ Len(reg_bps') >= Len(reg_bps)
     /\ SubSeq(reg_bps', 1, Len(reg_bps)) = reg_bps]_vars

\* The callback has run a second time for one address and returns to a
\* host that still has the breakpoint, while patterns are pending.
C23_Witness ==
  /\ reg_bps = <<RegistrationBp>>
  /\ cb.pc = "idle"
  /\ cmd.pc = "ret" /\ cmd.op = "list"
  /\ cb.code_addr = 0
  /\ \E a \in Addrs : a \in g_active_bp_addrs
  /\ g_pending_patterns # <<>>

C25_ArmedSetGrowsOnSuccess ==
  [][/\ g_active_bp_addrs \subseteq g_active_bp_addrs'
     /\ g_active_bp_addrs' # g_active_bp_addrs
          => /\ cb.pc = "matching"
             /\ cb'.requested /\ cb'.succeeded
             /\ g_active_bp_addrs' = g_active_bp_addrs \cup {cb.code_addr}
             /\ auto_bps'[cb.code_addr] = auto_bps[cb.code_addr] + 1
     /\ (cb.pc = "matching" /\ cb'.pc = "ret" /\ ~cb'.succeeded)
          => g_active_bp_addrs' = g_active_bp_addrs]_vars

\* The callback armed its address while break created a breakpoint of its
\* own, which the armed set does not record.
C25_Witness ==
  /\ cb.pc = "ret" /\ cb.path = "first_bp_ok"
  /\ g_active_bp_addrs = {cb.code_addr}
  /\ cmd.pc = "ret" /\ cmd.op = "break" /\ cmd.ok

(***************************************************************************)
(* Spec under fair scheduling: the host returns from every call, the       *)
(* debuggee keeps hitting the registration breakpoint and the operator     *)
(* keeps typing; a context that is again and again able to take its next   *)
(* step takes it (std::mutex gives a waiting thread no turn of its own, so *)
(* the assumption is strong fairness).                                     *)
(***************************************************************************)
SpecFair == Spec /\ SF_vars(CbStep) /\ SF_vars(CmdStep)

\* Who holds g_jit_mutex at each position of the two contexts: the
\* callback between lines 860 and 865, add between lines 700 and 704.
MutexOwner ==
  IF cb.pc \in {"cs_files", "cs_sizes"} THEN "cb"
  ELSE IF cmd.pc \in {"add_files", "add_sizes"} THEN "cmd"
  ELSE "free"

\* The mutex is held exactly inside the critical sections, so it is free
\* whenever a context returns, is taken only when free, and is free when
\* the callback hands "breakpoint set" to the command interpreter.
C26_MutexDiscipline ==
  /\ g_jit_mutex = MutexOwner
  /\ ~(cb.pc \in {"cs_files", "cs_sizes"} /\ cmd.pc \in {"add_files", "add_sizes"})

\* C26: every callback invocation and every command that has begun
\* eventually completes.
C26_EveryOperationCompletes ==
  /\ (cb.pc # "idle") ~> (cb.pc = "idle")
  /\ (cmd.pc # "idle") ~> (cmd.pc = "idle")

\* The same, for the runs in which the iteration of line 541 never
\* overlaps a push_back of line 999.
C26_CallbackCompletesUnlessRaced ==
  (cb.pc # "idle") ~> (cb.pc = "idle" \/ ~Alive)

C26_CommandCompletesUnlessRaced ==
  (cmd.pc # "idle") ~> (cmd.pc = "idle" \/ ~Alive)

(***************************************************************************)
(* Loading the plugin: PluginInitialize fills the interpreter's command    *)
(* table, then the operator types the words of a command name.             *)
(***************************************************************************)
MultiwordName == "dart-jit"
Subcommands == {"list", "break", "add", "watch"}
SetupName == "dart_jit_setup"

\* The command names in the table after PluginInitialize; the subcommands
\* are added only to a multiword command the interpreter gave as valid.
PluginInitialize(multiword_valid) ==
  (IF multiword_valid
   THEN {<<MultiwordName>>} \cup {<<MultiwordName, s>> : s \in Subcommands}
   ELSE {})
  \cup {<<SetupName>>}

\* The command names of the README's list of commands.
ReadmeCommands ==
  {<<"dart-jit-setup">>, <<"dart-jit", "list">>, <<"dart-jit", "break">>,
   <<"dart-jit", "add">>}

CommandWords ==
  {"dart-jit", "dart_jit", "dart-jit-setup", "dart_jit_setup", "setup",
   "list", "break", "add", "watch"}
TypedNames ==
  {<<w>> : w \in CommandWords}
  \cup {<<w, s>> : w \in CommandWords, s \in CommandWords}

InitLoad ==
  /\ g_jit_mutex = "free"
  /\ g_jit_functions = {}
  /\ g_jit_files = {}
  /\ g_jit_sizes = {}
  /\ g_pending_patterns = <<>>
  /\ g_active_bp_addrs = {}
  /\ reg_bps = <<>>
  /\ auto_bps = [a \in Addrs |-> 0]
  /\ committed = {}
  /\ cb = CbIdle
  /\ cmd = CmdIdle
  /\ probe \in {[fn |-> "PluginInitialize",
                 in |-> [typed |-> t, multiword_valid |-> v],
                 out |-> <<>>] : t \in TypedNames, v \in BOOLEAN}

\* The host loads the plugin.
Load ==
  /\ probe.fn = "PluginInitialize"
  /\ probe.out = <<>>
  /\ probe' = [probe EXCEPT
                 !.out = <<[table |-> PluginInitialize(probe.in.multiword_valid),
                            typed |-> FALSE, found |-> FALSE]>>]
  /\ UNCHANGED <<g_jit_mutex, registry, g_pending_patterns,
                 g_active_bp_addrs, reg_bps, auto_bps, committed, cb, cmd>>

\* The interpreter looks the typed name up in its table.
Interpret ==
  /\ probe.fn = "PluginInitialize"
  /\ probe.out # <<>>
  /\ ~probe.out[1].typed
  /\ probe' = [probe EXCEPT
                 !.out = <<[probe.out[1] EXCEPT
                              !.typed = TRUE,
                              !.found = (probe.in.typed \in probe.out[1].table)]>>]
  /\ UNCHANGED <<g_jit_mutex, registry, g_pending_patterns,
                 g_active_bp_addrs, reg_bps, auto_bps, committed, cb, cmd>>

NextLoad == Load \/ Interpret

SpecLoad == InitLoad /\ [][NextLoad]_vars

\* C27: with the plugin loaded and its multiword command valid, a command
\* name of the README that the operator types is found in the table.
C27_ReadmeCommandsRegistered ==
  (/\ probe.fn = "PluginInitialize"
   /\ probe.out # <<>>
   /\ probe.in.multiword_valid
   /\ probe.out[1].typed
   /\ probe.in.typed \in ReadmeCommands)
    => probe.out[1].found

\* The three README names under the multiword command are found.
C27_SubcommandsRegistered ==
  (/\ probe.fn = "PluginInitialize"
   /\ probe.out # <<>>
   /\ probe.in.multiword_valid
   /\ probe.out[1].typed
   /\ probe.in.typed \in ReadmeCommands
   /\ probe.in.typed # <<"dart-jit-setup">>)
    => probe.out[1].found

(***************************************************************************)
(* Two invocations of BreakpointCallback in flight at once, as when two    *)
(* debuggees of one host hit their registration breakpoints together.  cb  *)
(* is the invocation that is running, probe.other the one that is not;     *)
(* Yield switches between them.  The mutex counts as held whichever of the *)
(* two is inside lines 860-865.                                            *)
(***************************************************************************)
InitTwoEvents ==
  /\ g_jit_mutex = "free"
  /\ g_jit_functions = {}
  /\ g_jit_files = {}
  /\ g_jit_sizes = {}
  /\ g_pending_patterns \in {<<>>, <<PatB>>}
  /\ g_active_bp_addrs = {}
  /\ reg_bps = <<RegistrationBp>>
  /\ auto_bps = [a \in Addrs |-> 0]
  /\ committed = {}
  /\ cb = CbIdle
  /\ cmd = CmdIdle
  /\ probe = [fn |-> "BreakpointCallback", in |-> <<>>, out |-> <<>>,
              other |-> CbIdle]

\* The scheduler runs the other invocation.
Yield ==
  /\ Alive
  /\ probe.fn = "BreakpointCallback"
  /\ cb # probe.other
  /\ cb' = probe.other
  /\ probe' = [probe EXCEPT !.other = cb]
  /\ UNCHANGED <<g_jit_mutex, registry, g_pending_patterns,
                 g_active_bp_addrs, reg_bps, auto_bps, committed, cmd>>

NextTwoEvents == CbStep \/ Yield

SpecTwoEvents == InitTwoEvents /\ [][NextTwoEvents]_vars

\* An invocation has run line 861 and not yet returned to the host.
PastTest(c) ==
  \/ c.pc \in {"tested", "cs_files", "cs_sizes", "match", "matching"}
  \/ c.pc = "ret" /\ c.path \in {"duplicate", "first_no_bp", "first_bp_ok",
                                  "first_bp_fail"}

\* An invocation is between lines 860 and 865.
Inside(c) == c.pc \in {"cs_files", "cs_sizes"}

\* C28: an invocation enters lines 860-865 only while the other is
\* outside them, finds its address previously known exactly when the
\* registry holds it at that moment, and leaves the address in the
\* registry; of two invocations in flight for one address at most one has
\* found it not previously known, and only that one goes on to matching.
C28_TestAndWriteAtomic ==
  /\ [][(probe' = probe /\ ~Inside(cb) /\ Inside(cb'))
          => /\ ~Inside(probe.other)
             /\ cb'.already_registered = Has(g_jit_functions, cb.code_addr)
             /\ Has(g_jit_functions', cb.code_addr)]_vars
  /\ []((/\ probe.fn = "BreakpointCallback"
         /\ PastTest(cb) /\ PastTest(probe.other)
         /\ cb.code_addr = probe.other.code_addr)
          => /\ cb.already_registered \/ probe.other.already_registered
             /\ ~(cb.pc \in {"match", "matching"}
                  /\ probe.other.pc \in {"match", "matching"}))

\* Both invocations have decoded an event for the same address, unknown
\* until now; one is inside the critical section as the first sighting,
\* the other waits for the mutex.
C28_Witness ==
  /\ probe.fn = "BreakpointCallback"
  /\ cb.pc = "lock"
  /\ probe.other.pc = "cs_files"
  /\ ~probe.other.already_registered
  /\ cb.code_addr = probe.other.code_addr
  /\ ~Has(g_jit_sizes, cb.code_addr)

\* The invocation that waited has been dropped as a duplicate while the
\* first goes through the patterns.
C28_BothDone ==
  /\ probe.fn = "BreakpointCallback"
  /\ cb.pc = "ret" /\ cb.path = "duplicate"
  /\ probe.other.pc = "matching"
  /\ cb.code_addr = probe.other.code_addr

(***************************************************************************)
(* The reads of lines 806-835 on their own: the debuggee has pointers of   *)
(* P bytes, its descriptor at address desc names the entry at address      *)
(* entry, whose blob of symfile_size bytes lies at symfile_addr; the read  *)
(* numbered fail_at fails (0: none).  The log holds the reads performed.   *)
(***************************************************************************)
PointerWidths == {4, 8}
DescriptorAddrs == {64, 96}
EntryAddrs == {0, 128, 160}
BlobAddr == 256
BlobSize == 5

Read(field, addr, width) == [field |-> field, addr |-> addr, width |-> width]

\* process.GetAddressByteSize() wrongly taken as 8.
ReadPlan_Pointer8(P, desc, entry, symfile_addr, symfile_size) ==
  << Read("version", desc, 4),
     Read("action", desc + 4, 4),
     Read("relevant_entry", desc + 8, P),
     Read("next", entry, P),
     Read("prev", entry + 8, P),
     Read("symfile_addr", entry + 16, P),
     Read("symfile_size", entry + 24, 8),
     Read("blob", symfile_addr, symfile_size) >>

\* Lines 806-835: the reads in program order, each with its address and
\* its width in bytes.
ReadPlan(P, desc, entry, symfile_addr, symfile_size) ==
  << Read("version", desc, 4),
     Read("action", desc + 4, 4),
     Read("relevant_entry", desc + 8, P),
     Read("next", entry, P),
     Read("prev", entry + P, P),
     Read("symfile_addr", entry + 2 * P, P),
     Read("symfile_size", entry + 3 * P, 8),
     Read("blob", symfile_addr, symfile_size) >>

ReadInputs ==
  {[P |-> P, desc |-> d, entry |-> e, action |-> a, fail_at |-> k,
    symfile_addr |-> BlobAddr, symfile_size |-> BlobSize] :
     P \in PointerWidths, d \in DescriptorAddrs, e \in EntryAddrs,
     a \in 0..2, k \in 0..8}

\* The event of the plugin's model that a debuggee in this state raises.
ReadEvent(in) == Event(TRUE, in.fail_at, in.action, in.entry, NoFields)

InitReads ==
  /\ g_jit_mutex = "free"
  /\ g_jit_functions = {}
  /\ g_jit_files = {}
  /\ g_jit_sizes = {}
  /\ g_pending_patterns = <<>>
  /\ g_active_bp_addrs = {}
  /\ reg_bps = <<>>
  /\ auto_bps = [a \in Addrs |-> 0]
  /\ committed = {}
  /\ cb = CbIdle
  /\ cmd = CmdIdle
  /\ probe \in {[fn |-> "Reads", in |-> i, out |-> <<>>, done |-> FALSE] :
                  i \in ReadInputs}

\* The callback performs its next read.
ReadNext ==
  /\ probe.fn = "Reads"
  /\ ~probe.done
  /\ Len(probe.out) < ReadsDone(ReadEvent(probe.in))
  /\ probe' = [probe EXCEPT
       !.out = Append(@, ReadPlan(probe.in.P, probe.in.desc, probe.in.entry,
                                  probe.in.symfile_addr,
                                  probe.in.symfile_size)[Len(@) + 1])]
  /\ UNCHANGED <<g_jit_mutex, registry, g_pending_patterns,
                 g_active_bp_addrs, reg_bps, auto_bps, committed, cb, cmd>>

\* The callback reads no more: a read failed, there is no entry to
\* register, or the blob is in the buffer.
ReadStop ==
  /\ probe.fn = "Reads"
  /\ ~probe.done
  /\ Len(probe.out) = ReadsDone(ReadEvent(probe.in))
  /\ probe' = [probe EXCEPT !.done = TRUE]
  /\ UNCHANGED <<g_jit_mutex, registry, g_pending_patterns,
                 g_active_bp_addrs, reg_bps, auto_bps, committed, cb, cmd>>

NextReads == ReadNext \/ ReadStop

SpecReads == InitReads /\ [][NextReads]_vars

\* The k-th read of the log, if performed, is of w bytes at address a.
ReadIs(k, a, w) ==
  Len(probe.out) >= k => probe.out[k].addr = a /\ probe.out[k].width = w

\* C29: with pointers of P bytes the reads are, in this order, 4 bytes at
\* descriptor+0, 4 at descriptor+4, P at descriptor+8, P at entry+0, P at
\* entry+P, P at entry+2P and 8 at entry+3P; the blob is read only as the
\* eighth read, after none of the seven failed.
C29_ReadLayout ==
  probe.fn = "Reads" =>
    LET P == probe.in.P
        d == probe.in.desc
        e == probe.in.entry
    IN /\ ReadIs(1, d, 4)
       /\ ReadIs(2, d + 4, 4)
       /\ ReadIs(3, d + 8, P)
       /\ ReadIs(4, e, P)
       /\ ReadIs(5, e + P, P)
       /\ ReadIs(6, e + P + P, P)
       /\ ReadIs(7, e + P + P + P, 8)
       /\ \A k \in 1..Len(probe.out) :
            /\ k <= 7 => probe.out[k].field # "blob"
            /\ probe.out[k].field = "blob"
                 => /\ k = 8
                    /\ probe.in.fail_at \notin 1..7
                    /\ probe.in.entry # 0

\* A debuggee with 4-byte pointers: all eight reads were performed.
C29_Witness ==
  /\ probe.fn = "Reads"
  /\ probe.done
  /\ probe.in.P = 4
  /\ Len(probe.out) = 8
  /\ probe.out[7].addr = probe.in.entry + 12
  /\ probe.out[8].field = "blob"

(***************************************************************************)
(* The buffer of lines 834-843 on their own.  uint64_t is scaled to the    *)
(* numbers 0..UMax.  The debuggee's entry gives any symfile_size; mapped   *)
(* is the number of bytes the debuggee has readable at symfile_addr, and   *)
(* the host's allocator grants arrays of up to MaxAlloc bytes.             *)
(***************************************************************************)
MaxAlloc == 8
MaxMapped == 4

\* Line 834: the operand of new char[...], computed in uint64_t.
BufferBytes(symfile_size) == (symfile_size + 1) % (UMax + 1)

BufferInputs ==
  {[symfile_size |-> s, mapped |-> m] : s \in 0..UMax, m \in 0..MaxMapped}

BufferStart(in) ==
  [fn |-> "Buffer", in |-> in, out |-> <<>>, pc |-> "new", capacity |-> 0,
   written |-> 0, outcome |-> ""]

InitBuffer ==
  /\ g_jit_mutex = "free"
  /\ g_jit_functions = {}
  /\ g_jit_files = {}
  /\ g_jit_sizes = {}
  /\ g_pending_patterns = <<>>
  /\ g_active_bp_addrs = {}
  /\ reg_bps = <<>>
  /\ auto_bps = [a \in Addrs |-> 0]
  /\ committed = {}
  /\ cb = CbIdle
  /\ cmd = CmdIdle
  /\ probe \in {BufferStart(i) : i \in BufferInputs}

\* Line 834: new char[symfile_size + 1].  An array the allocator does not
\* grant makes new throw std::bad_alloc, which nothing in the callback or
\* above it catches: the host terminates.
Allocate ==
  /\ probe.fn = "Buffer"
  /\ probe.pc = "new"
  /\ probe' = IF BufferBytes(probe.in.symfile_size) > MaxAlloc
              THEN [probe EXCEPT !.pc = "done", !.outcome = "terminate"]
              ELSE [probe EXCEPT !.pc = "read",
                      !.capacity = BufferBytes(probe.in.symfile_size)]
  /\ UNCHANGED <<g_jit_mutex, registry, g_pending_patterns,
                 g_active_bp_addrs, reg_bps, auto_bps, committed, cb, cmd>>

\* Lines 835-839: ReadMemory copies the bytes it can read into the buffer
\* and fails when they are fewer than symfile_size.
ReadBlob ==
  /\ probe.fn = "Buffer"
  /\ probe.pc = "read"
  /\ LET n == IF probe.in.mapped < probe.in.symfile_size
              THEN probe.in.mapped ELSE probe.in.symfile_size
     IN probe' = IF probe.in.mapped < probe.in.symfile_size
                 THEN [probe EXCEPT !.pc = "done", !.written = n,
                                    !.outcome = "not_tracked"]
                 ELSE [probe EXCEPT !.pc = "nul", !.written = n]
  /\ UNCHANGED <<g_jit_mutex, registry, g_pending_patterns,
                 g_active_bp_addrs, reg_bps, auto_bps, committed, cb, cmd>>

\* Line 840: buffer[symfile_size] = '\0'.
Terminator ==
  /\ probe.fn = "Buffer"
  /\ probe.pc = "nul"
  /\ probe' = [probe EXCEPT !.pc = "done",
                            !.written = probe.in.symfile_size + 1,
                            !.outcome = "decode"]
  /\ UNCHANGED <<g_jit_mutex, registry, g_pending_patterns,
                 g_active_bp_addrs, reg_bps, auto_bps, committed, cb, cmd>>

NextBuffer == Allocate \/ ReadBlob \/ Terminator

SpecBuffer == InitBuffer /\ [][NextBuffer]_vars

\* C30: the buffer, once allocated, has symfile_size + 1 bytes, no byte is
\* written past its end, and the host does not terminate.
C30_BufferHoldsBlob ==
  probe.fn = "Buffer" =>
    /\ probe.pc # "new" /\ probe.outcome # "terminate"
         => probe.capacity = probe.in.symfile_size + 1
    /\ probe.written <= probe.capacity
    /\ probe.outcome # "terminate"

\* For the sizes the allocator grants, the buffer holds the blob and its
\* terminator.
C30_SmallSizesFit ==
  (probe.fn = "Buffer" /\ probe.in.symfile_size < MaxAlloc) =>
    /\ probe.pc # "new" => probe.capacity = probe.in.symfile_size + 1
    /\ probe.written <= probe.capacity
    /\ probe.outcome # "terminate"

Blank == {" ", "\t"}
StartsBlank(text) == text # <<>> /\ Head(text) \in Blank

\* C31: no decoded name or file begins with a space or a tab.
C31_LeadingBlanksRemoved ==
  ParseDone =>
    /\ ~StartsBlank(probe.out[1].name)
    /\ ~StartsBlank(probe.out[1].file)

\* A name or file line with something other than blanks after the colon
\* gives that text, trailing blanks and all, as the value.
C31_NonBlankValuesTrimmed ==
  ParseDone =>
    /\ (KeyLines(probe.in, KeyName) # {}
        /\ LastLine(probe.in, KeyName).value # <<>>)
         => probe.out[1].name = LastLine(probe.in, KeyName).value
    /\ (KeyLines(probe.in, KeyFile) # {}
        /\ LastLine(probe.in, KeyFile).value # <<>>)
         => probe.out[1].file = LastLine(probe.in, KeyFile).value

\* The lines the decoder passes over: empty, document marker, without a
\* colon, or with a key other than name, start, size, file.
NoiseLines ==
  {l \in LinePool :
     \/ l.kind = "raw"
     \/ l.kind = "kv" /\ l.key \notin {KeyName, KeyStart, KeySize, KeyFile}}

InsertAt(ls, k, l) == SubSeq(ls, 1, k) \o <<l>> \o SubSeq(ls, k + 1, Len(ls))

\* C32: a blob decodes to the same boolean and fields after a passed-over
\* line is inserted before its first line, between two lines or after its
\* last line.
C32_NoiseLinesIgnored ==
  ParseDone =>
    \A k \in 0..Len(probe.in), l \in NoiseLines :
      ParseYAMLDebugInfo(JoinLines(InsertAt(probe.in, k, l))) = probe.out[1]

\* A blob that decodes to a record has a document marker between its start
\* and size lines.
C32_Witness ==
  /\ ParseDone
  /\ probe.in = <<KV(KeyStart, <<" ">>, HexStr(1)), Raw(DocMarker),
                  KV(KeySize, <<" ">>, DecStr(2))>>
  /\ probe.out[1].ok
  /\ probe.out[1].addr = 1 /\ probe.out[1].size = 2

\* C38: a file or name value is everything after the line's first colon
\* less its leading blanks, further colons included, and only a line whose
\* text before the first colon is exactly the key sets the field.
C38_FirstColonSplits ==
  ParseDone =>
    \A key \in {KeyName, KeyFile} :
      LET got == IF key = KeyName THEN probe.out[1].name
                 ELSE probe.out[1].file
      IN  /\ KeyLines(probe.in, key) = {} => got = Unknown
          /\ (KeyLines(probe.in, key) # {}
              /\ LastLine(probe.in, key).value # <<>>)
               => got = LastLine(probe.in, key).value

\* The file value holds a colon and the line "name :b" is in the blob.
C38_Witness ==
  /\ ParseDone
  /\ probe.in = <<KV(<<"n", "a", "m", "e", " ">>, <<>>, NameB),
                  KV(KeyFile, <<" ">>, <<"p", ":", "f">>)>>
  /\ probe.out[1].file = <<"p", ":", "f">>
  /\ probe.out[1].name = Unknown

\* C33: every armed address is a key of the three maps, and an invocation
\* that goes on to the patterns as a first sighting finds its address not
\* armed.
C33_ArmedAreRegistered ==
  /\ g_active_bp_addrs \subseteq Keys(g_jit_functions)
  /\ g_active_bp_addrs \subseteq Keys(g_jit_files)
  /\ g_active_bp_addrs \subseteq Keys(g_jit_sizes)
  /\ (cb.pc \in {"match", "matching"} /\ ~cb.already_registered)
       => cb.code_addr \notin g_active_bp_addrs

\* The callback has armed its address, whose record add has since
\* overwritten.
C33_Witness ==
  /\ cb.pc = "ret" /\ cb.path = "first_bp_ok"
  /\ cb.code_addr \in g_active_bp_addrs
  /\ cmd.pc = "ret" /\ cmd.op = "add" /\ cmd.ok /\ cmd.addr = cb.code_addr
  /\ Get(g_jit_functions, cb.code_addr) = cmd.name

\* C34: address 0 is a key of none of the three maps, and break reports
\* "not found" only when no record's name contains its argument.
C34_ZeroNeverKey ==
  /\ [](/\ 0 \notin Keys(g_jit_functions)
        /\ 0 \notin Keys(g_jit_files)
        /\ 0 \notin Keys(g_jit_sizes))
  /\ [][(cmd.pc = "idle" /\ cmd'.op = "break" /\ cmd'.msg = "not_found")
          => BreakCandidates(cmd'.name) = {}]_vars

\* An event whose blob states start 0 was refused by the decoder, and
\* break has found a record by its name.
C34_Witness ==
  /\ cb.pc = "ret" /\ cb.path = "decode_fail"
  /\ FieldsStart(cb.ev) = 0 /\ FieldsSize(cb.ev) # 0
  /\ cmd.pc = "ret" /\ cmd.op = "break" /\ cmd.msg = "bp_set"
  /\ cmd.bp_at \in Keys(g_jit_functions)

\* C35: no step removes a key from any of the three maps.
C35_KeysNeverShrink ==
  [][/\ Keys(g_jit_functions) \subseteq Keys(g_jit_functions')
     /\ Keys(g_jit_files) \subseteq Keys(g_jit_files')
     /\ Keys(g_jit_sizes) \subseteq Keys(g_jit_sizes')]_vars

\* The callback has returned from an event whose action is 2 (unregister)
\* and the registry still holds its record.
C35_Witness ==
  /\ cb.pc = "ret" /\ cb.path = "no_entry"
  /\ cb.event.action = 2 /\ cb.event.entry # 0
  /\ Keys(g_jit_functions) # {}
  /\ Keys(g_jit_functions) = Keys(g_jit_sizes)

\* C36: an invocation that enters its critical section for the address add
\* has just stored finds it previously known; an invocation that found its
\* address previously known writes its record, returns as a duplicate
\* without reaching the match, and requests and arms nothing.
C36_AddedCountsAsKnown ==
  [][/\ (/\ cb.pc = "lock" /\ cb'.pc = "cs_files"
         /\ cmd.pc = "ret" /\ cmd.op = "add" /\ cmd.ok
         /\ cmd.addr = cb.code_addr)
          => cb'.already_registered
     /\ (cb.pc = "cs_sizes" /\ cb.already_registered /\ cb' # cb)
          => /\ cb'.pc = "ret" /\ cb'.path = "duplicate"
             /\ Get(g_jit_functions', cb.code_addr) = cb.func_name
             /\ Get(g_jit_sizes', cb.code_addr) = cb.code_size
             /\ UNCHANGED <<auto_bps, g_active_bp_addrs>>
     /\ (cb.already_registered /\ cb.pc # "idle")
          => /\ cb'.pc \notin {"match", "matching"}
             /\ UNCHANGED <<auto_bps, g_active_bp_addrs>>]_vars

\* add stored a record under one name; an event for the same address with
\* another name, which a pending pattern matches, has overwritten it and
\* returns as a duplicate with no breakpoint requested.
C36_Witness ==
  /\ cmd.pc = "ret" /\ cmd.op = "add" /\ cmd.ok
  /\ cb.pc = "ret" /\ cb.path = "duplicate"
  /\ cmd.addr = cb.code_addr
  /\ cmd.name # cb.func_name
  /\ Get(g_jit_functions, cb.code_addr) = cb.func_name
  /\ MatchesPending(cb.func_name, g_pending_patterns)
  /\ auto_bps[cb.code_addr] = 0
  /\ g_active_bp_addrs = {}

\* C37: a step of watch leaves the registry, the armed set and the
\* breakpoints as they were, and a breakpoint is requested only by an
\* invocation that found its address not previously known.
C37_WatchNotRetroactive ==
  [][/\ (cmd' # cmd /\ (cmd.op = "watch" \/ cmd'.op = "watch"))
          => UNCHANGED <<registry, g_active_bp_addrs, auto_bps, reg_bps>>
     /\ (auto_bps' # auto_bps \/ g_active_bp_addrs' # g_active_bp_addrs)
          => cb.pc = "matching" /\ ~cb.already_registered]_vars

\* watch has added a pattern that matches a registered name; a later event
\* at that address has returned as a duplicate and nothing is armed.
C37_Witness ==
  /\ cmd.pc = "ret" /\ cmd.op = "watch" /\ cmd.ok /\ cmd.added > 0
  /\ cb.pc = "ret" /\ cb.path = "duplicate"
  /\ MatchesPending(Get(g_jit_functions, cb.code_addr), g_pending_patterns)
  /\ auto_bps[cb.code_addr] = 0
  /\ cb.code_addr \notin g_active_bp_addrs

(***************************************************************************)
(* The launcher script dart-lldb.sh: it builds the list of -o commands of  *)
(* one lldb run, which lldb then executes in order.  The texts of the      *)
(* model hold letters, blanks, "-" and ";" only, none special to eval.     *)
(***************************************************************************)
MaxPendingItems == 3

\* The fields of text s between the occurrences of the character c.
RECURSIVE SplitAt(_, _)
SplitAt(s, c) ==
  LET at == FindChar(s, c)
  IN  IF at = npos THEN <<s>>
      ELSE <<SubstrN(s, 0, at)>> \o SplitAt(Substr(s, at + 1), c)

\* The words of a text: its maximal runs of characters other than blank,
\* tab and newline.
RECURSIVE Words(_)
Words(s) ==
  LET from == FindFirstNotOf(s, {" ", "\t", "\n"})
  IN  IF from = npos THEN <<>>
      ELSE LET rest == Substr(s, from)
               to   == IF \E i \in 1..Len(rest) : rest[i] \in {" ", "\t", "\n"}
                       THEN (CHOOSE i \in 1..Len(rest) :
                               /\ rest[i] \in {" ", "\t", "\n"}
                               /\ \A j \in 1..(i - 1) :
                                    rest[j] \notin {" ", "\t", "\n"}) - 1
                       ELSE Len(rest)
           IN  <<SubstrN(rest, 0, to)>> \o Words(Substr(rest, to))

RECURSIVE JoinWith(_, _)
JoinWith(ws, sep) ==
  IF ws = <<>> THEN <<>>
  ELSE IF Len(ws) = 1 THEN ws[1]
  ELSE ws[1] \o sep \o JoinWith(Tail(ws), sep)

\* echo takes a first argument made of "-" and the letters n, e, E as its
\* options and prints nothing for it.
IsEchoOption(w) ==
  /\ Len(w) >= 2
  /\ w[1] = "-"
  /\ \A i \in 2..Len(w) : w[i] \in {"n", "e", "E"}

RECURSIVE DropEchoOptions(_)
DropEchoOptions(ws) ==
  IF ws # <<>> /\ IsEchoOption(Head(ws)) THEN DropEchoOptions(Tail(ws))
  ELSE ws

\* Line 94 with echo printing every pattern.
TrimPattern_Plain(pat) == JoinWith(Words(pat), <<" ">>)

\* Line 94, pat=$(echo "$pat" | xargs): what echo prints, split into words
\* by xargs and printed by its echo, less the final newline.
TrimPattern(pat) ==
  LET printed == IF IsEchoOption(pat) THEN <<>> ELSE pat \o <<"\n">>
  IN  JoinWith(DropEchoOptions(Words(printed)), <<" ">>)

LldbCommand(verb, arg) == [verb |-> verb, arg |-> arg]

\* Lines 89-99: one watch command for every field of the list that
\* line 95 does not skip.
RECURSIVE WatchCmdsOf(_)
WatchCmdsOf(fields) ==
  IF fields = <<>> THEN <<>>
  ELSE (IF TrimPattern(Head(fields)) = <<>> THEN <<>>
        ELSE <<LldbCommand("dart-jit watch", TrimPattern(Head(fields)))>>)
       \o WatchCmdsOf(Tail(fields))

make_watch_cmds(list) == WatchCmdsOf(SplitAt(list, ";"))

\* Lines 101-179: the -o commands in the order the script appends them.
LauncherCommands(in) ==
  <<LldbCommand("plugin load", <<>>), LldbCommand("command script import", <<>>)>>
  \o (IF in.remote
      THEN <<LldbCommand("platform select", <<>>),
             LldbCommand("target create", <<>>),
             LldbCommand("gdb-remote", <<>>),
             LldbCommand("dart_jit_setup", <<>>)>>
           \o (IF in.list # <<>> THEN make_watch_cmds(in.list) ELSE <<>>)
           \o <<LldbCommand("process continue", <<>>)>>
      ELSE IF in.target
      THEN <<LldbCommand("target create", <<>>),
             LldbCommand("dart_jit_setup", <<>>)>>
           \o (IF in.list # <<>> THEN make_watch_cmds(in.list) ELSE <<>>)
           \o (IF in.args THEN <<LldbCommand("settings set", <<>>)>> ELSE <<>>)
           \o <<LldbCommand("process launch", <<>>)>>
      ELSE <<>>)

\* The patterns an operator may give, and the lists made of them.
PatternPool ==
  { <<"m">>, <<"f">>, <<>>, <<" ">>, <<" ", "m", " ">>, <<"-", "n">> }
PendingLists == UNION {[1..n -> PatternPool] : n \in 0..MaxPendingItems}

\* The sessions: remote (a target binary is required, line 113), local
\* with a target binary and with or without arguments, local without one.
Sessions ==
  {[remote |-> TRUE, target |-> TRUE, args |-> FALSE],
   [remote |-> FALSE, target |-> TRUE, args |-> FALSE],
   [remote |-> FALSE, target |-> TRUE, args |-> TRUE],
   [remote |-> FALSE, target |-> FALSE, args |-> FALSE]}

LauncherStart(s, items) ==
  [fn |-> "launcher",
   in |-> [remote |-> s.remote, target |-> s.target, args |-> s.args,
           items |-> items, list |-> JoinWith(items, <<";">>)],
   out |-> <<>>, built |-> FALSE, pos |-> 0, has_target |-> FALSE,
   setup |-> FALSE, watched |-> <<>>, pending |-> <<>>, started |-> FALSE]

InitLauncher ==
  /\ g_jit_mutex = "free"
  /\ g_jit_functions = {}
  /\ g_jit_files = {}
  /\ g_jit_sizes = {}
  /\ g_pending_patterns = <<>>
  /\ g_active_bp_addrs = {}
  /\ reg_bps = <<>>
  /\ auto_bps = [a \in Addrs |-> 0]
  /\ committed = {}
  /\ cb = CbIdle
  /\ cmd = CmdIdle
  /\ probe \in {LauncherStart(s, items) :
                  s \in Sessions, items \in PendingLists}

\* The script runs up to its last line, where eval starts lldb.
BuildCommands ==
  /\ probe.fn = "launcher"
  /\ ~probe.built
  /\ probe' = [probe EXCEPT !.built = TRUE, !.out = LauncherCommands(probe.in)]
  /\ UNCHANGED <<g_jit_mutex, registry, g_pending_patterns,
                 g_active_bp_addrs, reg_bps, auto_bps, committed, cb, cmd>>

\* lldb executes its next -o command: setup needs a target, watch stores
\* each word of its command line that is not empty, and the process runs
\* from "process launch" or "process continue" on.
ExecCommand ==
  /\ probe.fn = "launcher"
  /\ probe.built
  /\ probe.pos < Len(probe.out)
  /\ LET c == probe.out[probe.pos + 1]
     IN  probe' = [probe EXCEPT
           !.pos = @ + 1,
           !.has_target = @ \/ c.verb = "target create",
           !.setup = @ \/ (c.verb = "dart_jit_setup" /\ probe.has_target),
           !.watched = IF c.verb = "dart-jit watch" THEN Append(@, c.arg)
                       ELSE @,
           !.pending = IF c.verb = "dart-jit watch"
                       THEN @ \o SelectSeq(Words(c.arg), WatchStores)
                       ELSE @,
           !.started = @ \/ c.verb \in {"process launch", "process continue"}]
  /\ UNCHANGED <<g_jit_mutex, registry, g_pending_patterns,
                 g_active_bp_addrs, reg_bps, auto_bps, committed, cb, cmd>>

NextLauncher == BuildCommands \/ ExecCommand

SpecLauncher == InitLauncher /\ [][NextLauncher]_vars

\* A pattern as given, less the blanks around it.
RECURSIVE Strip(_)
Strip(p) ==
  IF p # <<>> /\ Head(p) = " " THEN Strip(Tail(p))
  ELSE IF p # <<>> /\ p[Len(p)] = " " THEN Strip(SubSeq(p, 1, Len(p) - 1))
  ELSE p

RECURSIVE StripAll(_)
StripAll(items) ==
  IF items = <<>> THEN <<>> ELSE <<Strip(Head(items))>> \o StripAll(Tail(items))

\* The patterns the operator asked for: the fields of the list that hold
\* more than blanks, in list order.
Requested(items) == SelectSeq(StripAll(items), IsNonEmpty)

\* C39: once the process runs, setup has succeeded on a created target
\* and one watch command has run for each requested pattern, in list
\* order, so that the pending patterns are the requested ones.
C39_PatternsPendingBeforeStart ==
  (probe.fn = "launcher" /\ probe.started) =>
    /\ probe.has_target
    /\ probe.setup
    /\ probe.watched = Requested(probe.in.items)
    /\ probe.pending = Requested(probe.in.items)

\* The order of the commands alone: the target is created before setup
\* runs, setup before any watch, and all of them before the process runs.
C39_CommandOrder ==
  probe.fn = "launcher" =>
    /\ probe.setup => probe.has_target
    /\ probe.watched # <<>> => probe.setup
    /\ probe.started
         => /\ probe.setup
            /\ Len(probe.watched) =
                 Len(SelectSeq(probe.out,
                               LAMBDA c : c.verb = "dart-jit watch"))

=============================================================================
